---- MODULE Spec2Model ----
(***************************************************************************)
(* EM Vidros RAG assistant: the intent router (src/src/query_router.py),    *)
(* the session store (src/src/memory.py), the index store's search          *)
(* (src/src/vector_store.py), the orchestrator's chat and query turns       *)
(* (src/src/rag_engine.py) and the crawler (src/src/scraper.py).            *)
(*                                                                         *)
(* Text is a sequence of characters, each character a one-element string;   *)
(* a letter with a diacritic is written as the letter followed by the mark  *)
(* ("e^" is e with circumflex, "c," is c with cedilla, "a'" is a with       *)
(* acute), so that it is one character, different from the bare letter.     *)
(***************************************************************************)
EXTENDS Integers, Sequences, FiniteSets, Bags, TLC

VARIABLES
  sessions,      \* table sessions: session_id -> row
  messages,      \* table messages, in rowid order
  now,           \* CURRENT_TIMESTAMP of the storage, in seconds
  turns,         \* number of calls started so far
  pc,            \* per call: the step the call is at
  kind,          \* per call: "chat" or "query"
  msg,           \* per call: the message / question argument
  sid,           \* per call: the session_id argument
  chat_history,  \* per call: the list built by _build_chat_history
  source_nodes,  \* per call: the retrieved sources
  routed_response, \* per call: what route returned
  response_text, \* per call: the text returned by the completion service
  result,        \* per call: the dict returned
  exc,           \* per call: str(e) of the exception being handled
  trace,         \* per call: the external calls made so far, in order
  rin,           \* function harness: the input handed to route, _is_valid_url or load_all
  rout,          \* function harness: what the function returned
  rphase,        \* function harness: "input", "routed", "url", "checked", "folder" or "loaded"
  store_op,      \* store harness: the last SessionMemory call and what it returned
  added,         \* store harness: per session, the messages add_message committed
  deleted,       \* store harness: the sessions that a delete removed
  max_pages,     \* scraper: self.max_pages
  urls_to_visit, \* scraper: the frontier of scrape
  visited_urls,  \* scraper: self.visited_urls
  scraped_content, \* scraper: self.scraped_content
  batch,         \* scraper: the URLs of the batch being fetched
  fetch_results, \* scraper: what asyncio.gather returned, not yet processed
  spc,           \* scraper: the step scrape is at
  fetched,       \* scraper: the bag of the fetches completed, with their outcome
  links,         \* scraper: the links of the last page processed
  scrape_result, \* scraper: what scrape returned, as RetList(the list)
  collection,    \* index: the Qdrant collection
  index_op       \* index harness: the last call that wrote the collection

vars == << sessions, messages, now, turns, pc, kind, msg, sid, chat_history,
           routed_response, source_nodes, response_text, result, exc, trace, rin, rout, rphase,
           store_op, added, deleted, max_pages, urls_to_visit, visited_urls,
           scraped_content, batch, fetch_results, spc, fetched, links,
           scrape_result, collection, index_op >>

storeVars == << sessions, messages >>
callVars == << pc, kind, msg, sid, chat_history, routed_response, source_nodes, response_text,
               result, exc, trace >>
routerVars == << rin, rout, rphase >>
memoryVars == << store_op, added, deleted >>
scraperVars == << max_pages, urls_to_visit, visited_urls, scraped_content, batch,
                  fetch_results, spc, fetched, links, scrape_result >>
indexVars == << collection, index_op >>
otherVars == << routerVars, memoryVars, scraperVars, indexVars >>

----------------------------------------------------------------------------
(* Bounds of the model *)

MaxTurns == 2
MaxClock == 0
MaxFrags == 2
MaxRows == 2
MaxStoreClock == 2
MaxStoreCalls == 3
MaxPages == 4
MaxIndexCalls == 2

----------------------------------------------------------------------------
(* Text *)

Range(s) == { s[i] : i \in DOMAIN s }

UpperCase ==
  <<"A","B","C","D","E","F","G","H","I","J","K","L","M","N","O","P","Q","R",
    "S","T","U","V","W","X","Y","Z","C,","E^","A'">>

LowerCase ==
  <<"a","b","c","d","e","f","g","h","i","j","k","l","m","n","o","p","q","r",
    "s","t","u","v","w","x","y","z","c,","e^","a'">>

\* the lower-case letter of each upper-case letter
RECURSIVE FoldTable(_)
FoldTable(n) ==
  IF n = 0 THEN << >>
  ELSE (UpperCase[n] :> LowerCase[n]) @@ FoldTable(n - 1)

ToLower == FoldTable(Len(UpperCase))

\* the case folding of re.IGNORECASE on one character
Fold(c) == IF c \in DOMAIN ToLower THEN ToLower[c] ELSE c

\* "|".join(patterns)
RECURSIVE JoinBar(_)
JoinBar(pats) ==
  IF pats = << >> THEN << >>
  ELSE IF Len(pats) = 1 THEN pats[1]
  ELSE pats[1] \o <<"|">> \o JoinBar(Tail(pats))

\* the alternatives of a regular expression source made of literals and "|":
\* the pieces between one "|" (or an end of the source) and the next
SplitBar(src) ==
  LET cuts == {0, Len(src) + 1} \cup { i \in DOMAIN src : src[i] = "|" }
      Cut(k) == CHOOSE c \in cuts : Cardinality({ d \in cuts : d < c }) = k - 1
  IN  << >> \o [k \in 1..(Cardinality(cuts) - 1) |->
                   SubSeq(src, Cut(k) + 1, Cut(k + 1) - 1)]

\* the text with every character case-folded
Lower(s) == << >> \o [i \in DOMAIN s |-> Fold(s[i])]

\* re.compile(source, re.IGNORECASE): the alternatives, case-folded when the
\* flag is set, as the matcher compares folded characters
Compile(src, ignorecase) ==
  LET alts == SplitBar(src)
  IN  [alts |-> << >> \o [k \in DOMAIN alts |->
                            IF ignorecase THEN Lower(alts[k]) ELSE alts[k]],
       ignorecase |-> ignorecase]

\* one alternative matched at position i of the text
MatchAt(alt, text, i) ==
  /\ i + Len(alt) - 1 <= Len(text)
  /\ \A k \in 1..Len(alt) : alt[k] = text[i + k - 1]

\* the scan of regex.search: the leftmost position at which some alternative
\* matches
RECURSIVE SearchFrom(_, _, _)
SearchFrom(regex, text, i) ==
  IF i > Len(text) + 1 THEN FALSE
  ELSE IF \E a \in DOMAIN regex.alts : MatchAt(regex.alts[a], text, i)
    THEN TRUE
  ELSE SearchFrom(regex, text, i + 1)

\* bool(regex.search(s))
Search(regex, s) ==
  LET text == IF regex.ignorecase THEN Lower(s) ELSE s
  IN  SearchFrom(regex, text, 1)

----------------------------------------------------------------------------
(* QueryRouter *)

SUPPORT_EMAIL == "suporte@emvidros.com.br"

SUPPORT_RESPONSE ==
  << "Para consultas sobre entrega de produtos, status de pedidos ou situacao de entrega, por favor entre em contato com nosso suporte:",
     "",
     "Email: ", "{email}",
     "",
     "Nossa equipe tera prazer em ajuda-lo com informacoes especificas sobre seu pedido e entrega.",
     "",
     "Para agilizar o atendimento, tenha em maos:",
     "- Numero do pedido",
     "- CPF/CNPJ do cadastro",
     "- Data da compra" >>

\* template.format(email=...)
Format(template, email) ==
  [i \in DOMAIN template |-> IF template[i] = "{email}" THEN email ELSE template[i]]

DELIVERY_PATTERNS ==
  << <<"e","n","t","r","e","g","a">>,
     <<"p","e","d","i","d","o">>,
     <<"e","n","v","i","o">>,
     <<"r","a","s","t","r","e","a","m","e","n","t","o">>,
     <<"r","a","s","t","r","e","a","r">>,
     <<"s","t","a","t","u","s">>,
     <<"s","a","i","u"," ","p","a","r","a"," ","e","n","t","r","e","g","a">>,
     <<"q","u","a","n","d","o"," ","c","h","e","g","a">>,
     <<"q","u","a","n","d","o"," ","v","a","i"," ","c","h","e","g","a","r">>,
     <<"d","e","m","o","r","a">>,
     <<"a","t","r","a","s","o">>,
     <<"p","r","a","z","o"," ","d","e"," ","e","n","t","r","e","g","a">>,
     <<"f","r","e","t","e">>,
     <<"t","r","a","n","s","p","o","r","t","a","d","o","r","a">>,
     <<"c","o","r","r","e","i","o">>,
     <<"j","a","d","l","o","g">>,
     <<"m","e","u"," ","p","r","o","d","u","t","o">>,
     <<"m","i","n","h","a"," ","c","o","m","p","r","a">>,
     <<"j","a'"," ","f","o","i"," ","e","n","v","i","a","d","o">>,
     <<"q","u","a","n","t","o"," ","t","e","m","p","o">>,
     <<"o","n","d","e"," ","e","s","t","a'">> >>

PRODUCT_PATTERNS ==
  << <<"q","u","a","i","s"," ","p","r","o","d","u","t","o","s">>,
     <<"o"," ","q","u","e"," ","v","e","n","d","e">>,
     <<"t","e","m"," ","v","i","d","r","o">>,
     <<"t","e","m"," ","e","s","p","e","l","h","o">>,
     <<"p","r","e","c,","o">>,
     <<"v","a","l","o","r">>,
     <<"c","a","t","a'","l","o","g","o">>,
     <<"l","i","s","t","a"," ","d","e"," ","p","r","o","d","u","t","o","s">> >>

_delivery_regex == Compile(JoinBar(DELIVERY_PATTERNS), TRUE)

_product_regex == Compile(JoinBar(PRODUCT_PATTERNS), TRUE)

\* Python's None
None == [none |-> TRUE]

\* _is_delivery_query without the product exclusion
M_is_delivery_query_NoExclusion(message) == Search(_delivery_regex, message)

_is_delivery_query(message) ==
  LET has_delivery == Search(_delivery_regex, message)
      has_product == Search(_product_regex, message)
  IN  has_delivery /\ ~has_product

route(message) ==
  IF _is_delivery_query(message)
    THEN [response |-> Format(SUPPORT_RESPONSE, SUPPORT_EMAIL),
          routed_to |-> "support",
          success |-> TRUE]
    ELSE None

----------------------------------------------------------------------------
(* Messages *)

MsgDeliveryOnly ==
  <<"Q","u","a","l"," ","o"," ","s","t","a","t","u","s"," ","d","a"," ","m","i","n","h","a"," ","e","n","t","r","e","g","a","?">>

MsgProductDelivery ==
  <<"V","o","c","e^","s"," ","t","e^","m"," ","v","i","d","r","o"," ","t","e","m","p","e","r","a","d","o"," ","p","a","r","a"," ","e","n","t","r","e","g","a"," ","r","e","s","i","d","e","n","c","i","a","l","?">>

MsgProductOnly ==
  <<"Q","u","a","l"," ","o"," ","P","R","E","C,","O"," ","d","o"," ","e","s","p","e","l","h","o","?">>

MsgPlain ==
  <<"B","o","m"," ","d","i","a">>

MsgFreight ==
  <<"F","r","e","t","e","?">>

\* the messages of the chat and query calls: one of each routing outcome
Messages == { MsgFreight, MsgPlain }

Examples ==
  { MsgDeliveryOnly, MsgProductDelivery, MsgProductOnly, MsgPlain, MsgFreight }

\* pieces from which the router harness builds its inputs
Fragments ==
  { <<"E","n","t","r","e","g","a">>,
    <<"s","t","a","t","u","s">>,
    <<"t","e","m">>,
    <<" ","v","i","d","r","o">>,
    <<"t","e^","m">>,
    <<"P","R","E","C,","O">>,
    <<"F","R","E","T","E"," ">>,
    <<"v","a","l","o","r">>,
    <<"x">> }

RECURSIVE Concat(_)
Concat(parts) ==
  IF parts = << >> THEN << >> ELSE parts[1] \o Concat(Tail(parts))

RouterInputs ==
  Examples \cup
  { Concat(parts) : parts \in UNION { [1..n -> Fragments] : n \in 0..MaxFrags } }

----------------------------------------------------------------------------
(* SessionMemory: the tables and the statements of each operation *)

SessionIds == { "s1", "s2" }
Turns == { 1 }

\* Config.MAX_CHAT_HISTORY, read from the environment (10 when unset): set to 2,
\* so that a session outgrows it within two turns
MAX_CHAT_HISTORY == 2

\* SQL NULL
NULL == [null |-> TRUE]

NoRow == [exists |-> FALSE, created_at |-> 0, updated_at |-> 0, metadata |-> NULL]

\* Python truthiness of an optional dict / list
Truthy(x) == x # None /\ x # << >>

\* json.dumps(metadata) if metadata else None
Dumps(metadata) == IF Truthy(metadata) THEN [json |-> metadata] ELSE NULL

\* json.loads(text)
Loads(text) == text.json

\* INSERT OR REPLACE INTO sessions (session_id, metadata, updated_at)
create_session(S, s, metadata, t) ==
  [S EXCEPT ![s] = [exists |-> TRUE, created_at |-> t, updated_at |-> t,
                    metadata |-> Dumps(metadata)]]

\* add_message, the sessions table: INSERT OR IGNORE the row, then UPDATE updated_at
add_message_sessions(S, s, t) ==
  LET ensured == IF S[s].exists THEN S
                 ELSE [S EXCEPT ![s] = [exists |-> TRUE, created_at |-> t,
                                        updated_at |-> t, metadata |-> NULL]]
  IN  [ensured EXCEPT ![s].updated_at = t]

\* add_message that keeps one message per session: the new row replaces the old
M_add_message_messages_Replace(M, s, role, content, metadata, t) ==
  Append(SelectSeq(M, LAMBDA r : r.session_id # s),
         [id |-> Len(M) + 1, session_id |-> s, role |-> role,
          content |-> content, timestamp |-> t, metadata |-> Dumps(metadata)])

\* add_message, the messages table: INSERT INTO messages
add_message_messages(M, s, role, content, metadata, t) ==
  Append(M, [id |-> Len(M) + 1, session_id |-> s, role |-> role,
             content |-> content, timestamp |-> t, metadata |-> Dumps(metadata)])

\* ORDER BY timestamp ASC: rows with equal timestamps stay in rowid order
RECURSIVE InsertByTimestamp(_, _)
InsertByTimestamp(sorted, row) ==
  IF sorted = << >> THEN <<row>>
  ELSE IF sorted[Len(sorted)].timestamp <= row.timestamp THEN Append(sorted, row)
  ELSE Append(InsertByTimestamp(SubSeq(sorted, 1, Len(sorted) - 1), row),
              sorted[Len(sorted)])

RECURSIVE OrderByTimestamp(_)
OrderByTimestamp(rows) ==
  IF rows = << >> THEN << >>
  ELSE InsertByTimestamp(OrderByTimestamp(SubSeq(rows, 1, Len(rows) - 1)),
                         rows[Len(rows)])

\* the latest n rows kept instead of the earliest
M_Limit_Latest(rows, n) ==
  IF n < 0 \/ n >= Len(rows) THEN rows
  ELSE SubSeq(rows, Len(rows) - n + 1, Len(rows))

\* LIMIT n: a negative n is no limit
Limit(rows, n) ==
  IF n < 0 \/ n >= Len(rows) THEN rows ELSE SubSeq(rows, 1, n)

\* get_chat_history when the storage answers; limit 0 stands for None as well,
\* both being falsy in "limit or Config.MAX_CHAT_HISTORY"
get_chat_history(M, s, limit) ==
  LET lim == IF limit = 0 THEN MAX_CHAT_HISTORY ELSE limit
      rows == Limit(OrderByTimestamp(SelectSeq(M, LAMBDA r : r.session_id = s)), lim)
  IN  [i \in DOMAIN rows |->
         IF rows[i].metadata # NULL
           THEN [role |-> rows[i].role, content |-> rows[i].content,
                 timestamp |-> rows[i].timestamp,
                 metadata |-> Loads(rows[i].metadata)]
           ELSE [role |-> rows[i].role, content |-> rows[i].content,
                 timestamp |-> rows[i].timestamp]]

\* get_session when the storage answers: the row as a dict, or None
get_session(S, s) ==
  IF S[s].exists
    THEN [session_id |-> s, created_at |-> S[s].created_at,
          updated_at |-> S[s].updated_at,
          metadata |-> IF S[s].metadata # NULL THEN Loads(S[s].metadata) ELSE << >>]
    ELSE None

----------------------------------------------------------------------------
(* RAGEngine *)

\* what the retriever can return: the source nodes, best score first
NodeLists == { << >>, <<"n1">> }

\* str(e) of the exceptions the vector database and the completion service raise
RetrievalErrors == { "vector store unavailable" }

CompletionErrors == { "completion service error" }

Answer == <<"answer">>

CHAT_ERROR_RESPONSE ==
  <<"Desculpe, ocorreu um erro ao processar sua mensagem. Por favor, tente novamente.">>

QUERY_ERROR_RESPONSE ==
  <<"Desculpe, ocorreu um erro ao processar sua pergunta.">>

NOT_FOUND_RESPONSE ==
  <<"Nao encontrei informacoes relevantes sobre isso nos nossos documentos.">>

NoResult == [pending |-> TRUE]

\* one entry of a call's trace: the collaborator called, whether it answered,
\* and the rowid written (0 when none)
Call(op, ok, row) == [op |-> op, ok |-> ok, row |-> row]

_build_chat_history(rows) ==
  LET kept == SelectSeq(rows, LAMBDA m : m.role \in {"user", "assistant"})
  IN  [i \in DOMAIN kept |-> [role |-> kept[i].role, content |-> kept[i].content]]

\* the dict chat returns for a routed message
ChatRouted(routed, s) ==
  [response |-> routed.response, routed_to |-> routed.routed_to,
   success |-> routed.success, session_id |-> s, sources |-> << >>]

\* the dict chat returns for an answered message
ChatAnswered(text, s, nodes) ==
  [response |-> text, session_id |-> s, sources |-> nodes, success |-> TRUE]

\* the dict chat returns from its except branch
ChatFailed(s, e) ==
  [response |-> CHAT_ERROR_RESPONSE, session_id |-> s, sources |-> << >>,
   success |-> FALSE, error |-> e]

\* the assistant message stored without its sources
M_AssistantMetadata_None(nodes) == None

\* metadata={"sources": source_nodes} if source_nodes else None
AssistantMetadata(nodes) ==
  IF nodes # << >> THEN [sources |-> nodes] ELSE None

\* the dicts query returns
QueryNotFound ==
  [response |-> NOT_FOUND_RESPONSE, sources |-> << >>, success |-> TRUE]

QueryAnswered(text, results) ==
  [response |-> text, sources |-> results, success |-> TRUE]

QueryFailed(e) ==
  [response |-> QUERY_ERROR_RESPONSE, sources |-> << >>, success |-> FALSE,
   error |-> e]

\* search with its except branch returning what the retriever had
M_search_Unguarded(db_ok, nodes) == nodes

\* VectorStoreManager.search: the nodes retrieved, or [] when the database raises
search(db_ok, nodes) == IF db_ok THEN nodes ELSE << >>

----------------------------------------------------------------------------
(* State *)

\* the store harness before its first call
NoOp == [name |-> "none", sid |-> "s1", arg |-> None, ok |-> TRUE, ret |-> None]

MemoryOff ==
  /\ store_op = NoOp
  /\ added = [s \in SessionIds |-> << >>]
  /\ deleted = { }

\* no WebsiteScraper has been constructed
ScraperOff ==
  /\ max_pages = 0
  /\ urls_to_visit = << >>
  /\ visited_urls = { }
  /\ scraped_content = << >>
  /\ batch = << >>
  /\ fetch_results = << >>
  /\ spc = "off"
  /\ fetched = EmptyBag
  /\ links = << >>
  /\ scrape_result = NoResult

\* the Qdrant collection: whether it exists, and its points in insertion order
EmptyCollection == [exists |-> TRUE, points |-> << >>]

\* the index harness before its first call
NoIndexOp ==
  [name |-> "none", handed |-> None, ret |-> None, before |-> EmptyCollection]

\* no VectorStoreManager call has been made: the collection exists and is empty
IndexOff ==
  /\ collection = EmptyCollection
  /\ index_op = NoIndexOp

\* no chat or query call, no router call and no session store call has been made
EngineIdle ==
  /\ sessions = [s \in SessionIds |-> NoRow]
  /\ messages = << >>
  /\ now = 0
  /\ turns = 0
  /\ pc = [t \in Turns |-> "idle"]
  /\ kind = [t \in Turns |-> "none"]
  /\ msg = [t \in Turns |-> << >>]
  /\ sid = [t \in Turns |-> "s1"]
  /\ chat_history = [t \in Turns |-> << >>]
  /\ routed_response = [t \in Turns |-> None]
  /\ source_nodes = [t \in Turns |-> << >>]
  /\ response_text = [t \in Turns |-> << >>]
  /\ result = [t \in Turns |-> NoResult]
  /\ exc = [t \in Turns |-> ""]
  /\ trace = [t \in Turns |-> << >>]
  /\ rin = << >>
  /\ rout = NoResult
  /\ rphase = "off"

Init ==
  /\ sessions = [s \in SessionIds |-> NoRow]
  /\ messages = << >>
  /\ now = 0
  /\ turns = 0
  /\ pc = [t \in Turns |-> "idle"]
  /\ kind = [t \in Turns |-> "none"]
  /\ msg = [t \in Turns |-> << >>]
  /\ sid = [t \in Turns |-> "s1"]
  /\ chat_history = [t \in Turns |-> << >>]
  /\ routed_response = [t \in Turns |-> None]
  /\ source_nodes = [t \in Turns |-> << >>]
  /\ response_text = [t \in Turns |-> << >>]
  /\ result = [t \in Turns |-> NoResult]
  /\ exc = [t \in Turns |-> ""]
  /\ trace = [t \in Turns |-> << >>]
  /\ rin = << >>
  /\ rout = NoResult
  /\ rphase = "off"
  /\ MemoryOff
  /\ ScraperOff
  /\ IndexOff

\* the call moves to step p, having made the external call c
Step(t, p, c) ==
  /\ pc' = [pc EXCEPT ![t] = p]
  /\ trace' = [trace EXCEPT ![t] = Append(@, c)]

\* CURRENT_TIMESTAMP at a write: the second of the last write, or a later one
Clock == { t \in now..(now + 1) : t <= MaxClock }

\* no call is running: api.py's handlers call the engine without awaiting, so
\* the event loop runs one call to its end before it starts the next
AllIdle == \A u \in Turns : pc[u] = "idle"

----------------------------------------------------------------------------
(* RAGEngine.chat, one action per external call *)

StartChat(t) ==
  /\ AllIdle
  /\ turns < MaxTurns
  /\ \E m \in Messages, s \in SessionIds :
       /\ msg' = [msg EXCEPT ![t] = m]
       /\ sid' = [sid EXCEPT ![t] = s]
  /\ kind' = [kind EXCEPT ![t] = "chat"]
  /\ pc' = [pc EXCEPT ![t] = "get_session"]
  /\ turns' = turns + 1
  /\ UNCHANGED << storeVars, now, chat_history, source_nodes, response_text,
                  result, trace, exc, routed_response, otherVars >>

\* if not self.session_memory.get_session(session_id)
ChatGetSession(t) ==
  /\ pc[t] = "get_session"
  /\ \E ok \in BOOLEAN :
       LET session == IF ok THEN get_session(sessions, sid[t]) ELSE None
       IN  Step(t, IF session = None THEN "create_session" ELSE "add_user",
                Call("get_session", ok, 0))
  /\ UNCHANGED << storeVars, now, turns, kind, msg, sid, chat_history,
                  source_nodes, response_text, result, exc, routed_response, otherVars >>

\* INSERT OR REPLACE with the foreign keys enforced: replacing the row of the
\* session deletes its messages
M_ChatCreateSession_Cascades(t) ==
  /\ pc[t] = "create_session"
  /\ \/ \E ts \in Clock :
          /\ sessions' = create_session(sessions, sid[t], None, ts)
          /\ messages' = SelectSeq(messages, LAMBDA r : r.session_id # sid[t])
          /\ now' = ts
          /\ Step(t, "add_user", Call("create_session", TRUE, 0))
     \/ /\ UNCHANGED << sessions, messages, now >>
        /\ Step(t, "add_user", Call("create_session", FALSE, 0))
  /\ UNCHANGED << turns, kind, msg, sid, chat_history,
                  source_nodes, response_text, result, exc, routed_response, otherVars >>

\* self.session_memory.create_session(session_id)
ChatCreateSession(t) ==
  /\ pc[t] = "create_session"
  /\ \/ \E ts \in Clock :
          /\ sessions' = create_session(sessions, sid[t], None, ts)
          /\ now' = ts
          /\ Step(t, "add_user", Call("create_session", TRUE, 0))
     \/ /\ UNCHANGED << sessions, now >>
        /\ Step(t, "add_user", Call("create_session", FALSE, 0))
  /\ UNCHANGED << messages, turns, kind, msg, sid, chat_history,
                  source_nodes, response_text, result, exc, routed_response, otherVars >>

\* session_memory.add_message(...) called by the call t, which goes on at step p:
\* the transaction commits, or the storage raises and nothing is written
AddMessage(t, role, content, metadata, p) ==
  \/ \E ts \in Clock :
       /\ sessions' = add_message_sessions(sessions, sid[t], ts)
       /\ messages' = add_message_messages(messages, sid[t], role, content,
                                           metadata, ts)
       /\ now' = ts
       /\ Step(t, p, Call("add_message", TRUE, Len(messages) + 1))
  \/ /\ UNCHANGED << sessions, messages, now >>
     /\ Step(t, p, Call("add_message", FALSE, 0))

\* the user message stored only in memory: the call goes on, nothing is written
M_ChatAddUser_NotStored(t) ==
  /\ pc[t] = "add_user"
  /\ Step(t, "route", Call("add_message", TRUE, Len(messages) + 1))
  /\ UNCHANGED << storeVars, now, turns, kind, msg, sid, chat_history,
                  source_nodes, response_text, result, exc, routed_response, otherVars >>

\* self.session_memory.add_message(session_id, "user", message)
ChatAddUser(t) ==
  /\ pc[t] = "add_user"
  /\ AddMessage(t, "user", msg[t], None, "route")
  /\ UNCHANGED << turns, kind, msg, sid, chat_history, source_nodes,
                  response_text, result, exc, routed_response, otherVars >>

\* the routing result ignored: every message goes on to retrieval
M_ChatRoute_Ignored(t) ==
  /\ pc[t] = "route"
  /\ routed_response' = [routed_response EXCEPT ![t] = route(msg[t])]
  /\ Step(t, "history", Call("route", TRUE, 0))
  /\ UNCHANGED << storeVars, now, turns, kind, msg, sid, chat_history,
                  source_nodes, response_text, result, exc, otherVars >>

\* routed_response = self.query_router.route(message)
ChatRoute(t) ==
  /\ pc[t] = "route"
  /\ LET routed == route(msg[t])
     IN  /\ routed_response' = [routed_response EXCEPT ![t] = routed]
         /\ Step(t, IF routed # None THEN "add_support" ELSE "history",
                 Call("route", TRUE, 0))
  /\ UNCHANGED << storeVars, now, turns, kind, msg, sid, chat_history,
                  source_nodes, response_text, result, exc, otherVars >>

\* the routed branch: store the support response and return it
ChatAddSupport(t) ==
  /\ pc[t] = "add_support"
  /\ AddMessage(t, "assistant", routed_response[t].response, None, "done")
  /\ result' = [result EXCEPT ![t] = ChatRouted(routed_response[t], sid[t])]
  /\ UNCHANGED << turns, kind, msg, sid, chat_history, routed_response,
                  source_nodes, response_text, exc, otherVars >>

\* a failed history load raised to chat instead of read as an empty history
M_ChatHistory_Raises(t) ==
  /\ pc[t] = "history"
  /\ \/ /\ chat_history' =
             [chat_history EXCEPT
                ![t] = _build_chat_history(get_chat_history(messages, sid[t], 0))]
        /\ Step(t, "retrieve", Call("get_chat_history", TRUE, 0))
        /\ UNCHANGED exc
     \/ /\ exc' = [exc EXCEPT ![t] = "database is locked"]
        /\ Step(t, "except", Call("get_chat_history", FALSE, 0))
        /\ UNCHANGED chat_history
  /\ UNCHANGED << storeVars, now, turns, kind, msg, sid, source_nodes,
                  response_text, result, routed_response, otherVars >>

\* chat_history = self._build_chat_history(session_id)
ChatHistory(t) ==
  /\ pc[t] = "history"
  /\ \E ok \in BOOLEAN :
       LET rows == IF ok THEN get_chat_history(messages, sid[t], 0) ELSE << >>
       IN  /\ chat_history' = [chat_history EXCEPT ![t] = _build_chat_history(rows)]
           /\ Step(t, "retrieve", Call("get_chat_history", ok, 0))
  /\ UNCHANGED << storeVars, now, turns, kind, msg, sid, source_nodes,
                  response_text, result, exc, routed_response, otherVars >>

\* chat_engine.chat(message), the retrieval: the nodes, or the retriever raises
ChatRetrieve(t) ==
  /\ pc[t] = "retrieve"
  /\ \/ \E nodes \in NodeLists :
          /\ source_nodes' = [source_nodes EXCEPT ![t] = nodes]
          /\ Step(t, "generate", Call("retrieve", TRUE, 0))
          /\ UNCHANGED exc
     \/ \E e \in RetrievalErrors :
          /\ exc' = [exc EXCEPT ![t] = e]
          /\ Step(t, "except", Call("retrieve", FALSE, 0))
          /\ UNCHANGED source_nodes
  /\ UNCHANGED << storeVars, now, turns, kind, msg, sid, chat_history,
                  response_text, result, routed_response, otherVars >>

\* chat_engine.chat(message), the completion: the text, or the service raises
ChatGenerate(t) ==
  /\ pc[t] = "generate"
  /\ \/ /\ response_text' = [response_text EXCEPT ![t] = Answer]
        /\ Step(t, "add_assistant", Call("complete", TRUE, 0))
        /\ UNCHANGED exc
     \/ \E e \in CompletionErrors :
          /\ exc' = [exc EXCEPT ![t] = e]
          /\ Step(t, "except", Call("complete", FALSE, 0))
          /\ UNCHANGED response_text
  /\ UNCHANGED << storeVars, now, turns, kind, msg, sid, chat_history,
                  source_nodes, result, routed_response, otherVars >>

\* the except branch logging and re-raising
M_ChatExcept_Reraise(t) ==
  /\ pc[t] = "except"
  /\ kind[t] = "chat"
  /\ pc' = [pc EXCEPT ![t] = "raised"]
  /\ UNCHANGED << storeVars, now, turns, kind, msg, sid, chat_history,
                  source_nodes, response_text, result, exc, trace, routed_response, otherVars >>

\* except Exception as e: log it and return the apology
ChatExcept(t) ==
  /\ pc[t] = "except"
  /\ kind[t] = "chat"
  /\ result' = [result EXCEPT ![t] = ChatFailed(sid[t], exc[t])]
  /\ pc' = [pc EXCEPT ![t] = "done"]
  /\ UNCHANGED << storeVars, now, turns, kind, msg, sid, chat_history,
                  source_nodes, response_text, exc, trace, routed_response, otherVars >>

\* store the assistant response and return the answer
ChatAddAssistant(t) ==
  /\ pc[t] = "add_assistant"
  /\ AddMessage(t, "assistant", response_text[t],
                AssistantMetadata(source_nodes[t]), "done")
  /\ result' = [result EXCEPT
                  ![t] = ChatAnswered(response_text[t], sid[t], source_nodes[t])]
  /\ UNCHANGED << turns, kind, msg, sid, chat_history, source_nodes,
                  response_text, exc, routed_response, otherVars >>

----------------------------------------------------------------------------
(* RAGEngine.query *)

StartQuery(t) ==
  /\ AllIdle
  /\ turns < MaxTurns
  /\ \E q \in Messages : msg' = [msg EXCEPT ![t] = q]
  /\ kind' = [kind EXCEPT ![t] = "query"]
  /\ pc' = [pc EXCEPT ![t] = "q_route"]
  /\ turns' = turns + 1
  /\ UNCHANGED << storeVars, now, sid, chat_history, source_nodes,
                  response_text, result, trace, exc, routed_response, otherVars >>

\* query recording the question in a session, as chat does
M_QueryRoute_Persists(t) ==
  /\ pc[t] = "q_route"
  /\ messages' = add_message_messages(messages, sid[t], "user", msg[t], None, now)
  /\ LET routed == route(msg[t])
     IN  /\ routed_response' = [routed_response EXCEPT ![t] = routed]
         /\ result' = [result EXCEPT ![t] = IF routed # None THEN routed ELSE @]
         /\ Step(t, IF routed # None THEN "done" ELSE "q_search",
                 Call("route", TRUE, 0))
  /\ UNCHANGED << sessions, now, turns, kind, msg, sid, chat_history,
                  source_nodes, response_text, exc, otherVars >>

\* routed_response = self.query_router.route(question)
QueryRoute(t) ==
  /\ pc[t] = "q_route"
  /\ LET routed == route(msg[t])
     IN  /\ routed_response' = [routed_response EXCEPT ![t] = routed]
         /\ IF routed # None
              THEN /\ result' = [result EXCEPT ![t] = routed]
                   /\ Step(t, "done", Call("route", TRUE, 0))
              ELSE /\ UNCHANGED result
                   /\ Step(t, "q_search", Call("route", TRUE, 0))
  /\ UNCHANGED << storeVars, now, turns, kind, msg, sid, chat_history,
                  source_nodes, response_text, exc, otherVars >>

\* results = self.vector_store.search(question, top_k=top_k)
QuerySearch(t) ==
  /\ pc[t] = "q_search"
  /\ \E db_ok \in BOOLEAN, nodes \in NodeLists :
       LET results == search(db_ok, nodes)
       IN  /\ source_nodes' = [source_nodes EXCEPT ![t] = results]
           /\ IF results = << >>
                THEN /\ result' = [result EXCEPT ![t] = QueryNotFound]
                     /\ Step(t, "done", Call("search", db_ok, 0))
                ELSE /\ UNCHANGED result
                     /\ Step(t, "q_complete", Call("search", db_ok, 0))
  /\ UNCHANGED << storeVars, now, turns, kind, msg, sid, chat_history,
                  response_text, exc, routed_response, otherVars >>

\* response = self.llm.complete(prompt)
QueryComplete(t) ==
  /\ pc[t] = "q_complete"
  /\ \/ /\ result' = [result EXCEPT ![t] = QueryAnswered(Answer, source_nodes[t])]
        /\ Step(t, "done", Call("complete", TRUE, 0))
        /\ UNCHANGED exc
     \/ \E e \in CompletionErrors :
          /\ exc' = [exc EXCEPT ![t] = e]
          /\ Step(t, "except", Call("complete", FALSE, 0))
          /\ UNCHANGED result
  /\ UNCHANGED << storeVars, now, turns, kind, msg, sid, chat_history,
                  source_nodes, response_text, routed_response, otherVars >>

\* except Exception as e: log it and return the apology
QueryExcept(t) ==
  /\ pc[t] = "except"
  /\ kind[t] = "query"
  /\ result' = [result EXCEPT ![t] = QueryFailed(exc[t])]
  /\ pc' = [pc EXCEPT ![t] = "done"]
  /\ UNCHANGED << storeVars, now, turns, kind, msg, sid, chat_history,
                  source_nodes, response_text, exc, trace, routed_response, otherVars >>

\* the caller takes the result; the call's locals are gone
Return(t) ==
  /\ pc[t] = "done"
  /\ pc' = [pc EXCEPT ![t] = "idle"]
  /\ kind' = [kind EXCEPT ![t] = "none"]
  /\ msg' = [msg EXCEPT ![t] = << >>]
  /\ sid' = [sid EXCEPT ![t] = "s1"]
  /\ chat_history' = [chat_history EXCEPT ![t] = << >>]
  /\ routed_response' = [routed_response EXCEPT ![t] = None]
  /\ source_nodes' = [source_nodes EXCEPT ![t] = << >>]
  /\ response_text' = [response_text EXCEPT ![t] = << >>]
  /\ result' = [result EXCEPT ![t] = NoResult]
  /\ exc' = [exc EXCEPT ![t] = ""]
  /\ trace' = [trace EXCEPT ![t] = << >>]
  /\ UNCHANGED << storeVars, now, turns, otherVars >>

Next ==
  \/ \E t \in Turns : StartChat(t)
  \/ \E t \in Turns : ChatGetSession(t)
  \/ \E t \in Turns : ChatCreateSession(t)
  \/ \E t \in Turns : ChatAddUser(t)
  \/ \E t \in Turns : ChatRoute(t)
  \/ \E t \in Turns : ChatAddSupport(t)
  \/ \E t \in Turns : ChatHistory(t)
  \/ \E t \in Turns : ChatRetrieve(t)
  \/ \E t \in Turns : ChatGenerate(t)
  \/ \E t \in Turns : ChatExcept(t)
  \/ \E t \in Turns : ChatAddAssistant(t)
  \/ \E t \in Turns : StartQuery(t)
  \/ \E t \in Turns : QueryRoute(t)
  \/ \E t \in Turns : QuerySearch(t)
  \/ \E t \in Turns : QueryComplete(t)
  \/ \E t \in Turns : QueryExcept(t)
  \/ \E t \in Turns : Return(t)

Spec == Init /\ [][Next]_vars

----------------------------------------------------------------------------
(* Two chat calls on one session at the same time: two server processes on   *)
(* the same database file, each running RAGEngine.chat once                  *)

Workers == { 1, 2 }

\* the session both calls are for
SharedSession == "s1"

InitChats ==
  /\ sessions = [s \in SessionIds |-> NoRow]
  /\ messages = << >>
  /\ now = 0
  /\ turns = 0
  /\ pc = [t \in Workers |-> "idle"]
  /\ kind = [t \in Workers |-> "none"]
  /\ msg = [t \in Workers |-> << >>]
  /\ sid = [t \in Workers |-> SharedSession]
  /\ chat_history = [t \in Workers |-> << >>]
  /\ routed_response = [t \in Workers |-> None]
  /\ source_nodes = [t \in Workers |-> << >>]
  /\ response_text = [t \in Workers |-> << >>]
  /\ result = [t \in Workers |-> NoResult]
  /\ exc = [t \in Workers |-> ""]
  /\ trace = [t \in Workers |-> << >>]
  /\ rin = << >>
  /\ rout = NoResult
  /\ rphase = "off"
  /\ MemoryOff
  /\ ScraperOff
  /\ IndexOff

\* chat(message, SharedSession) entered in process t, whatever the other
\* process is doing
StartChatOn(t) ==
  /\ pc[t] = "idle"
  /\ \E m \in Messages : msg' = [msg EXCEPT ![t] = m]
  /\ sid' = [sid EXCEPT ![t] = SharedSession]
  /\ kind' = [kind EXCEPT ![t] = "chat"]
  /\ pc' = [pc EXCEPT ![t] = "get_session"]
  /\ turns' = turns + 1
  /\ UNCHANGED << storeVars, now, chat_history, source_nodes, response_text,
                  result, trace, exc, routed_response, otherVars >>

NextChats ==
  \/ \E t \in Workers : StartChatOn(t)
  \/ \E t \in Workers : ChatGetSession(t)
  \/ \E t \in Workers : ChatCreateSession(t)
  \/ \E t \in Workers : ChatAddUser(t)
  \/ \E t \in Workers : ChatRoute(t)
  \/ \E t \in Workers : ChatAddSupport(t)
  \/ \E t \in Workers : ChatHistory(t)
  \/ \E t \in Workers : ChatRetrieve(t)
  \/ \E t \in Workers : ChatGenerate(t)
  \/ \E t \in Workers : ChatExcept(t)
  \/ \E t \in Workers : ChatAddAssistant(t)

SpecChats == InitChats /\ [][NextChats]_vars

----------------------------------------------------------------------------
(* The router on its own: route applied to every input of RouterInputs *)

InitRoute ==
  /\ sessions = [s \in SessionIds |-> NoRow]
  /\ messages = << >>
  /\ now = 0
  /\ turns = 0
  /\ pc = [t \in Turns |-> "idle"]
  /\ kind = [t \in Turns |-> "none"]
  /\ msg = [t \in Turns |-> << >>]
  /\ sid = [t \in Turns |-> "s1"]
  /\ chat_history = [t \in Turns |-> << >>]
  /\ routed_response = [t \in Turns |-> None]
  /\ source_nodes = [t \in Turns |-> << >>]
  /\ response_text = [t \in Turns |-> << >>]
  /\ result = [t \in Turns |-> NoResult]
  /\ exc = [t \in Turns |-> ""]
  /\ trace = [t \in Turns |-> << >>]
  /\ rin \in RouterInputs
  /\ rout = NoResult
  /\ rphase = "input"
  /\ MemoryOff
  /\ ScraperOff
  /\ IndexOff

RouteCall ==
  /\ rphase = "input"
  /\ rout' = route(rin)
  /\ rphase' = "routed"
  /\ UNCHANGED << storeVars, now, turns, callVars, rin, memoryVars, scraperVars,
                  indexVars >>

NextRoute == RouteCall

SpecRoute == InitRoute /\ [][NextRoute]_vars

----------------------------------------------------------------------------
(* SessionMemory on its own: every operation called directly, in any order *)

\* the metadata arguments and the roles of the calls
Metadatas == { None, [origin |-> "web"] }
Roles == { "user", "assistant" }

\* the limit arguments of get_chat_history and list_sessions (0 is also None
\* for get_chat_history), and the days arguments of clear_old_sessions
Limits == 0 .. (MaxRows + 1)
Days == { 0, 1 }

\* CURRENT_TIMESTAMP and datetime('now') of the storage at a statement
StoreClock == { t \in now .. (now + 1) : t <= MaxStoreClock }

\* the connection in autocommit mode: what ran before the failure stays
M_add_message_Autocommit(S, M, s, role, content, metadata, t, fail) ==
  LET S1 == IF fail = 1 \/ S[s].exists THEN S
            ELSE [S EXCEPT ![s] = [exists |-> TRUE, created_at |-> t,
                                   updated_at |-> t, metadata |-> NULL]]
      M2 == IF fail \in {1, 2} THEN M
            ELSE add_message_messages(M, s, role, content, metadata, t)
      S3 == IF fail \in {1, 2, 3} THEN S1 ELSE [S1 EXCEPT ![s].updated_at = t]
  IN  [sessions |-> S3, messages |-> M2, ret |-> fail = 0]

\* add_message: the three statements run in one transaction of one connection.
\* fail = 0: none raises and the transaction commits; fail = 1, 2, 3: that
\* statement raises (json.dumps of the metadata counts with the 2nd); fail = 4:
\* the commit raises. A connection closed without commit rolls back.
add_message(S, M, s, role, content, metadata, t, fail) ==
  LET S1 == IF fail = 1 \/ S[s].exists THEN S
            ELSE [S EXCEPT ![s] = [exists |-> TRUE, created_at |-> t,
                                   updated_at |-> t, metadata |-> NULL]]
      M2 == IF fail \in {1, 2} THEN M
            ELSE add_message_messages(M, s, role, content, metadata, t)
      S3 == IF fail \in {1, 2, 3} THEN S1 ELSE [S1 EXCEPT ![s].updated_at = t]
  IN  IF fail = 0
        THEN [sessions |-> S3, messages |-> M2, ret |-> TRUE]
        ELSE [sessions |-> S, messages |-> M, ret |-> FALSE]

\* a row of sessions as the dict of get_session and list_sessions
SessionDict(S, s) ==
  [session_id |-> s, created_at |-> S[s].created_at,
   updated_at |-> S[s].updated_at,
   metadata |-> IF S[s].metadata # NULL THEN Loads(S[s].metadata) ELSE << >>]

\* list_sessions when the storage answers: ORDER BY updated_at DESC LIMIT ?,
\* rows with equal updated_at in any order (a negative limit is no limit)
list_sessions(S, limit) ==
  LET ids == { s \in SessionIds : S[s].exists }
      n   == IF limit < 0 \/ limit > Cardinality(ids) THEN Cardinality(ids)
             ELSE limit
      ordered == { q \in [1 .. Cardinality(ids) -> ids] :
                     /\ \A i, j \in DOMAIN q : i # j => q[i] # q[j]
                     /\ \A i, j \in DOMAIN q :
                          i < j => S[q[i]].updated_at >= S[q[j]].updated_at }
  IN  { [i \in 1 .. n |-> SessionDict(S, q[i])] : q \in ordered }

\* delete_session: DELETE FROM sessions WHERE session_id = ?. The connection
\* never sets PRAGMA foreign_keys, which SQLite leaves OFF, so the ON DELETE
\* CASCADE of the schema is not enforced and the table messages is not touched.
delete_session(S, s) == [S EXCEPT ![s] = NoRow]

\* clear_old_sessions: DELETE FROM sessions WHERE updated_at < datetime('now',
\* '-days days'), days counted in steps of the clock; messages as in delete_session
OldSessions(S, days, t) ==
  { s \in SessionIds : S[s].exists /\ S[s].updated_at < t - days }

clear_old_sessions(S, days, t) ==
  [s \in SessionIds |-> IF s \in OldSessions(S, days, t) THEN NoRow ELSE S[s]]

\* what a call returned: True / False, a list, a count, a dict or None
RetBool(b) == [bool |-> b]
RetList(l) == [list |-> l]
RetCount(n) == [count |-> n]

StoreCall(name, s, arg, ok, ret) ==
  store_op' = [name |-> name, sid |-> s, arg |-> arg, ok |-> ok, ret |-> ret]

InitStore ==
  /\ EngineIdle
  /\ MemoryOff
  /\ ScraperOff
  /\ IndexOff

StoreCreateSession ==
  /\ turns < MaxStoreCalls
  /\ turns' = turns + 1
  /\ \E s \in SessionIds, metadata \in Metadatas :
       \/ \E ts \in StoreClock :
            /\ sessions' = create_session(sessions, s, metadata, ts)
            /\ now' = ts
            /\ StoreCall("create_session", s, [metadata |-> metadata], TRUE,
                         RetBool(TRUE))
       \/ /\ UNCHANGED << sessions, now >>
          /\ StoreCall("create_session", s, [metadata |-> metadata], FALSE,
                       RetBool(FALSE))
  /\ UNCHANGED << messages, callVars, routerVars, added, deleted,
                  scraperVars, indexVars >>

StoreAddMessage ==
  /\ turns < MaxStoreCalls
  /\ turns' = turns + 1
  /\ Len(messages) < MaxRows
  /\ \E s \in SessionIds, role \in Roles, ts \in StoreClock, fail \in 0 .. 4 :
       LET after == add_message(sessions, messages, s, role, MsgPlain, None,
                                ts, fail)
       IN  /\ sessions' = after.sessions
           /\ messages' = after.messages
           /\ now' = IF fail = 0 THEN ts ELSE now
           /\ added' = IF after.ret
                         THEN [added EXCEPT ![s] =
                                 Append(@, [role |-> role, content |-> MsgPlain])]
                         ELSE added
           /\ StoreCall("add_message", s, [role |-> role], fail = 0,
                        RetBool(after.ret))
  /\ UNCHANGED << callVars, routerVars, deleted, scraperVars,
                  indexVars >>

StoreGetChatHistory ==
  /\ turns < MaxStoreCalls
  /\ turns' = turns + 1
  /\ \E s \in SessionIds, limit \in Limits, ok \in BOOLEAN :
       StoreCall("get_chat_history", s, [limit |-> limit], ok,
                 RetList(IF ok THEN get_chat_history(messages, s, limit)
                         ELSE << >>))
  /\ UNCHANGED << storeVars, now, callVars, routerVars, added, deleted,
                  scraperVars, indexVars >>

StoreGetSession ==
  /\ turns < MaxStoreCalls
  /\ turns' = turns + 1
  /\ \E s \in SessionIds, ok \in BOOLEAN :
       StoreCall("get_session", s, None, ok,
                 IF ok THEN get_session(sessions, s) ELSE None)
  /\ UNCHANGED << storeVars, now, callVars, routerVars, added, deleted,
                  scraperVars, indexVars >>

StoreListSessions ==
  /\ turns < MaxStoreCalls
  /\ turns' = turns + 1
  /\ \E limit \in Limits :
       \/ \E l \in list_sessions(sessions, limit) :
            StoreCall("list_sessions", "s1", [limit |-> limit], TRUE, RetList(l))
       \/ StoreCall("list_sessions", "s1", [limit |-> limit], FALSE,
                    RetList(<< >>))
  /\ UNCHANGED << storeVars, now, callVars, routerVars, added, deleted,
                  scraperVars, indexVars >>

\* the exception of the DELETE is let out of delete_session
M_StoreDeleteSession_Raises ==
  /\ turns < MaxStoreCalls
  /\ turns' = turns + 1
  /\ \E s \in SessionIds :
       /\ UNCHANGED << sessions, deleted >>
       /\ StoreCall("delete_session", s, None, FALSE, [raised |-> TRUE])
  /\ UNCHANGED << messages, now, callVars, routerVars, added,
                  scraperVars, indexVars >>

StoreDeleteSession ==
  /\ turns < MaxStoreCalls
  /\ turns' = turns + 1
  /\ \E s \in SessionIds :
       \/ /\ sessions' = delete_session(sessions, s)
          /\ deleted' = deleted \cup {s}
          /\ StoreCall("delete_session", s, None, TRUE, RetBool(TRUE))
       \/ /\ UNCHANGED << sessions, deleted >>
          /\ StoreCall("delete_session", s, None, FALSE, RetBool(FALSE))
  /\ UNCHANGED << messages, now, callVars, routerVars, added,
                  scraperVars, indexVars >>

StoreClearOldSessions ==
  /\ turns < MaxStoreCalls
  /\ turns' = turns + 1
  /\ \E days \in Days :
       \/ \E ts \in StoreClock :
            /\ sessions' = clear_old_sessions(sessions, days, ts)
            /\ deleted' = deleted \cup OldSessions(sessions, days, ts)
            /\ now' = ts
            /\ StoreCall("clear_old_sessions", "s1", [days |-> days], TRUE,
                         RetCount(Cardinality(OldSessions(sessions, days, ts))))
       \/ /\ UNCHANGED << sessions, deleted, now >>
          /\ StoreCall("clear_old_sessions", "s1", [days |-> days], FALSE,
                       RetCount(0))
  /\ UNCHANGED << messages, callVars, routerVars, added, scraperVars,
                  indexVars >>

NextStore ==
  \/ StoreCreateSession
  \/ StoreAddMessage
  \/ StoreGetChatHistory
  \/ StoreGetSession
  \/ StoreListSessions
  \/ StoreDeleteSession
  \/ StoreClearOldSessions

SpecStore == InitStore /\ [][NextStore]_vars

----------------------------------------------------------------------------
(* WebsiteScraper: URLs and pages *)

\* Config.WEBSITE_URL, read from the environment: the base URL of the crawl
WEBSITE_URL == <<"h","t","t","p","s",":","/","/","e","m",".","b","r">>

base_url == WEBSITE_URL

\* the pages of the site
UrlA == <<"h","t","t","p","s",":","/","/","e","m",".","b","r","/","a">>
UrlB == <<"h","t","t","p","s",":","/","/","e","m",".","b","r","/","b">>
UrlC == <<"h","t","t","p","s",":","/","/","e","m",".","b","r","/","c">>
UrlD == <<"h","t","t","p","s",":","/","/","e","m",".","b","r","/","d">>
UrlE == <<"h","t","t","p","s",":","/","/","e","m",".","b","r","/","e">>
UrlF == <<"h","t","t","p","s",":","/","/","e","m",".","b","r","/","f">>

\* other href values found in anchors
HrefA == <<"/","a">>
HrefB == <<"/","b">>
HrefPdf == <<"h","t","t","p","s",":","/","/","e","m",".","b","r","/","g",".","P","D","F">>
HrefMail == <<"m","a","i","l","t","o",":","x","@","e","m",".","b","r">>
HrefOther == <<"h","t","t","p","s",":","/","/","x",".","b","r","/","a">>
HrefBad == <<"h","t","t","p",":","/","/","[">>
HrefUploads == <<"/","w","p","-","c","o","n","t","e","n","t","/","u","p","l","o","a","d","s","/","h">>

skip_patterns ==
  << <<".","p","d","f">>,
     <<".","j","p","g">>,
     <<".","j","p","e","g">>,
     <<".","p","n","g">>,
     <<".","g","i","f">>,
     <<".","c","s","s">>,
     <<".","j","s">>,
     <<".","z","i","p">>,
     <<".","t","a","r">>,
     <<".","g","z">>,
     <<".","m","p","4">>,
     <<".","m","p","3">>,
     <<".","a","v","i">>,
     <<"/","w","p","-","c","o","n","t","e","n","t","/","u","p","l","o","a","d","s","/">>,
     <<"/","w","p","-","i","n","c","l","u","d","e","s","/">>,
     <<"m","a","i","l","t","o",":">>,
     <<"t","e","l",":">>,
     <<"j","a","v","a","s","c","r","i","p","t",":">> >>

\* urls_to_visit[:5]: the size of a batch
BATCH_SIZE == 5

\* len(text) > 100: the length a page's text must exceed to be recorded
MIN_TEXT_LENGTH == 100

Digits == {"0", "1", "2", "3", "4", "5", "6", "7", "8", "9"}
Letters == Range(LowerCase) \cup Range(UpperCase)

\* str.find: the first position of the character in the text, 0 when absent
Find(text, c) ==
  IF \E i \in DOMAIN text : text[i] = c
    THEN CHOOSE i \in DOMAIN text :
           text[i] = c /\ \A j \in 1 .. (i - 1) : text[j] # c
    ELSE 0

\* urllib.parse.urlparse, scheme and netloc: the scheme is what precedes the
\* first ":" when that is a letter followed by scheme characters, lowercased;
\* the netloc is what follows "//" up to the next "/", "?" or "#"
urlparse(url) ==
  LET i == Find(url, ":")
      hasScheme == /\ i > 1
                   /\ url[1] \in Letters
                   /\ \A k \in 1 .. (i - 1) :
                        url[k] \in Letters \cup Digits \cup {"+", "-", "."}
      rest == IF hasScheme THEN SubSeq(url, i + 1, Len(url)) ELSE url
      hasNetloc == Len(rest) >= 2 /\ rest[1] = "/" /\ rest[2] = "/"
      ends == { k \in 3 .. Len(rest) : rest[k] \in {"/", "?", "#"} }
      stop == IF ends = { } THEN Len(rest) + 1
              ELSE CHOOSE k \in ends : \A j \in ends : k <= j
  IN  [scheme |-> IF hasScheme THEN Lower(SubSeq(url, 1, i - 1)) ELSE << >>,
       netloc |-> IF hasNetloc THEN SubSeq(rest, 3, stop - 1) ELSE << >>,
       path   |-> IF hasNetloc THEN SubSeq(rest, stop, Len(rest)) ELSE rest]

\* urllib.parse.urljoin for the hrefs of the model: an empty href is the page
\* itself, an href with a scheme is taken as it is, an href that starts with
\* "/" replaces the path of the page's URL
urljoin(current_url, href) ==
  LET cur == urlparse(current_url)
  IN  IF href = << >> THEN current_url
      ELSE IF urlparse(href).scheme # << >> THEN href
      ELSE cur.scheme \o <<":", "/", "/">> \o cur.netloc \o href

\* urlsplit raises ValueError("Invalid IPv6 URL") for an authority that holds
\* one of the brackets "[" and "]" without the other
Malformed(url) ==
  LET netloc == urlparse(url).netloc
  IN  ("[" \in Range(netloc)) # ("]" \in Range(netloc))

\* pattern in url_lower
Contains(text, pattern) == \E i \in 1 .. Len(text) : MatchAt(pattern, text, i)

_is_valid_url(url) ==
  LET parsed_base == urlparse(base_url)
      parsed_url  == urlparse(url)
      url_lower   == Lower(url)
  IN  /\ parsed_url.netloc = parsed_base.netloc
      /\ parsed_url.scheme \in { <<"h","t","t","p">>, <<"h","t","t","p","s">> }
      /\ ~ \E k \in DOMAIN skip_patterns : Contains(url_lower, skip_patterns[k])

\* a fetched page, as far as scrape looks at it: the href of every anchor, in
\* document order, and the length of the text _extract_text returns
\* (title and description are left out)
HomePages ==
  { [anchors |-> <<HrefA, UrlB, UrlA, WEBSITE_URL, HrefPdf, HrefMail>>,
     text_len |-> 101],
    [anchors |-> <<UrlA, HrefB, UrlC, HrefOther, UrlD, UrlE, HrefUploads, UrlF>>,
     text_len |-> 100] }

InnerPages ==
  { [anchors |-> << >>, text_len |-> 101],
    [anchors |-> <<WEBSITE_URL, HrefB, UrlA>>, text_len |-> 0],
    [anchors |-> <<HrefBad>>, text_len |-> 101] }

PagesOf(url) == IF url = base_url THEN HomePages ELSE InnerPages

\* what session.get(url) can give: a response with a status (and a body when
\* 200), a timeout after 30 seconds, or another exception
Responses(url) ==
  { [kind |-> "response", status |-> 200, html |-> p] : p \in PagesOf(url) }
    \cup { [kind |-> "response", status |-> 404, html |-> None],
           [kind |-> "timeout", status |-> 0, html |-> None],
           [kind |-> "error", status |-> 0, html |-> None] }

\* the fetch lets its exception out
Raised == [raised |-> TRUE]

M_fetch_page_Raises(url, response) ==
  IF response.kind = "response"
    THEN IF response.status = 200 THEN [url |-> url, html |-> response.html]
         ELSE [url |-> url, html |-> None]
    ELSE Raised

\* the body of the response is handed on whatever its status
M_fetch_page_IgnoresStatus(url, response) ==
  [url |-> url,
   html |-> IF response.html = None
              THEN [anchors |-> << >>, text_len |-> MIN_TEXT_LENGTH + 1]
              ELSE response.html]

\* _fetch_page: (url, html) for a 200 response, (url, None) for another status
\* and for every exception
_fetch_page(url, response) ==
  IF response.kind = "response" /\ response.status = 200
    THEN [url |-> url, html |-> response.html]
    ELSE [url |-> url, html |-> None]

\* every href joined to the page's URL and kept
M_extract_links_NoFilter(html, current_url) ==
  << >> \o [i \in DOMAIN html.anchors |-> urljoin(current_url, html.anchors[i])]

\* _extract_links: every href joined to the page's URL, kept when in scope
_extract_links(html, current_url) ==
  SelectSeq(<< >> \o [i \in DOMAIN html.anchors |->
                        urljoin(current_url, html.anchors[i])],
            _is_valid_url)

\* urljoin(current_url, href) raises for some anchor of the page: nothing in
\* _extract_links or in scrape catches the ValueError
ExtractRaises(html, current_url) ==
  \E i \in DOMAIN html.anchors : Malformed(html.anchors[i])

\* the links appended without looking at the frontier
M_AppendNew_NoQueueCheck(frontier, visited, found) ==
  frontier \o SelectSeq(found, LAMBDA l : l \notin visited)

\* the new links put at the front of the frontier
M_AppendNew_AtFront(frontier, visited, found) ==
  SelectSeq(found, LAMBDA l : l \notin visited /\ l \notin Range(frontier))
    \o frontier

\* the links appended as found
M_AppendNew_NoCheck(frontier, visited, found) == frontier \o found

\* for link in links: if link not in self.visited_urls and link not in
\* urls_to_visit: urls_to_visit.append(link)
RECURSIVE AppendNew(_, _, _)
AppendNew(frontier, visited, found) ==
  IF found = << >> THEN frontier
  ELSE LET link == Head(found)
       IN  AppendNew(IF link \notin visited /\ link \notin Range(frontier)
                       THEN Append(frontier, link) ELSE frontier,
                     visited, Tail(found))

\* a fetch of the batch that has not completed
NotDone == [done |-> FALSE]

\* the whole frontier is taken as the batch
M_Take_All(q, n) == q

\* urls_to_visit[:n] and urls_to_visit[n:]
Take(q, n) == SubSeq(q, 1, IF Len(q) < n THEN Len(q) ELSE n)
Drop(q, n) == SubSeq(q, n + 1, Len(q))

----------------------------------------------------------------------------
(* WebsiteScraper.scrape, one crawl run *)

\* WebsiteScraper(max_pages=n).scrape() entered: the frontier holds the base URL
InitScrape ==
  /\ EngineIdle
  /\ MemoryOff
  /\ IndexOff
  /\ max_pages \in 1 .. MaxPages
  /\ urls_to_visit = <<base_url>>
  /\ visited_urls = { }
  /\ scraped_content = << >>
  /\ batch = << >>
  /\ fetch_results = << >>
  /\ spc = "loop"
  /\ fetched = EmptyBag
  /\ links = << >>
  /\ scrape_result = NoResult

engineVars == << storeVars, now, turns, callVars, routerVars, memoryVars,
                indexVars >>

\* the loop goes on as long as the frontier holds a URL
M_DispatchBatch_NoBudget ==
  /\ spc = "loop"
  /\ urls_to_visit # << >>
  /\ batch' = Take(urls_to_visit, BATCH_SIZE)
  /\ urls_to_visit' = Drop(urls_to_visit, BATCH_SIZE)
  /\ fetch_results' = << >> \o [i \in 1 .. Len(batch') |-> NotDone]
  /\ spc' = "gather"
  /\ UNCHANGED << engineVars, max_pages, visited_urls, scraped_content, fetched,
                  links, scrape_result >>

\* while urls_to_visit and len(self.visited_urls) < self.max_pages: the batch
\* is cut off the frontier and one _fetch_page task is made per URL
DispatchBatch ==
  /\ spc = "loop"
  /\ urls_to_visit # << >> /\ Cardinality(visited_urls) < max_pages
  /\ batch' = Take(urls_to_visit, BATCH_SIZE)
  /\ urls_to_visit' = Drop(urls_to_visit, BATCH_SIZE)
  /\ fetch_results' = << >> \o [i \in 1 .. Len(batch') |-> NotDone]
  /\ spc' = "gather"
  /\ UNCHANGED << engineVars, max_pages, visited_urls, scraped_content, fetched,
                  links, scrape_result >>

\* one task of asyncio.gather completes; gather returns when all have, or
\* raises what a task raised
FetchPage ==
  /\ spc = "gather"
  /\ \E i \in DOMAIN batch :
       /\ fetch_results[i] = NotDone
       /\ \E response \in Responses(batch[i]) :
            LET r == _fetch_page(batch[i], response)
            IN  IF r = Raised
                  THEN /\ spc' = "raised"
                       /\ UNCHANGED << fetch_results, fetched >>
                  ELSE /\ fetch_results' = [fetch_results EXCEPT ![i] = r]
                       /\ fetched' = fetched (+)
                            SetToBag({[url |-> batch[i],
                                       ok  |-> response.kind = "response"
                                                 /\ response.status = 200]})
                       /\ spc' = IF \A j \in DOMAIN batch \ {i} :
                                       fetch_results[j] # NotDone
                                   THEN "process" ELSE "gather"
  /\ UNCHANGED << engineVars, max_pages, urls_to_visit, visited_urls,
                  scraped_content, batch, links, scrape_result >>

\* the loop goes back to its condition without sleeping
M_AfterResult_NoSleep(rest) == IF rest = << >> THEN "loop" ELSE "process"

\* where scrape stands after an iteration of the for loop: at the next result,
\* or past the loop at await asyncio.sleep(self.delay)
AfterResult(rest) == IF rest = << >> THEN "sleep" ELSE "process"

\* a result is processed whether or not its URL is visited already
M_ProcessResult_NoVisitedCheck ==
  /\ spc = "process"
  /\ LET url  == Head(fetch_results).url
         html == Head(fetch_results).html
     IN  IF html = None
           THEN /\ UNCHANGED << visited_urls, scraped_content, urls_to_visit, links >>
                /\ fetch_results' = Tail(fetch_results)
                /\ spc' = AfterResult(Tail(fetch_results))
           ELSE IF ExtractRaises(html, url)
             THEN /\ visited_urls' = visited_urls \cup {url}
                  /\ spc' = "raised"
                  /\ UNCHANGED << scraped_content, urls_to_visit, links,
                                  fetch_results >>
             ELSE /\ visited_urls' = visited_urls \cup {url}
                  /\ links' = _extract_links(html, url)
                  /\ scraped_content' =
                       IF html.text_len > MIN_TEXT_LENGTH
                         THEN Append(scraped_content,
                                     [url |-> url, content_length |-> html.text_len])
                         ELSE scraped_content
                  /\ urls_to_visit' = AppendNew(urls_to_visit, visited_urls', links')
                  /\ fetch_results' = Tail(fetch_results)
                  /\ spc' = AfterResult(Tail(fetch_results))
  /\ UNCHANGED << engineVars, max_pages, batch, fetched, scrape_result >>

\* one iteration of "for url, html in results"; an exception of the
\* extraction leaves the loop and scrape
ProcessResult ==
  /\ spc = "process"
  /\ LET url  == Head(fetch_results).url
         html == Head(fetch_results).html
     IN  IF html = None \/ url \in visited_urls
           THEN /\ UNCHANGED << visited_urls, scraped_content, urls_to_visit, links >>
                /\ fetch_results' = Tail(fetch_results)
                /\ spc' = AfterResult(Tail(fetch_results))
           ELSE IF ExtractRaises(html, url)
             THEN /\ visited_urls' = visited_urls \cup {url}
                  /\ spc' = "raised"
                  /\ UNCHANGED << scraped_content, urls_to_visit, links,
                                  fetch_results >>
             ELSE /\ visited_urls' = visited_urls \cup {url}
                  /\ links' = _extract_links(html, url)
                  /\ scraped_content' =
                       IF html.text_len > MIN_TEXT_LENGTH
                         THEN Append(scraped_content,
                                     [url |-> url, content_length |-> html.text_len])
                         ELSE scraped_content
                  /\ urls_to_visit' = AppendNew(urls_to_visit, visited_urls', links')
                  /\ fetch_results' = Tail(fetch_results)
                  /\ spc' = AfterResult(Tail(fetch_results))
  /\ UNCHANGED << engineVars, max_pages, batch, fetched, scrape_result >>

\* await asyncio.sleep(self.delay)
Sleep ==
  /\ spc = "sleep"
  /\ spc' = "loop"
  /\ UNCHANGED << engineVars, max_pages, urls_to_visit, visited_urls,
                  scraped_content, batch, fetch_results, fetched, links,
                  scrape_result >>

\* the loop has ended: return self.scraped_content
ScrapeReturn ==
  /\ spc = "loop"
  /\ ~ (urls_to_visit # << >> /\ Cardinality(visited_urls) < max_pages)
  /\ scrape_result' = RetList(scraped_content)
  /\ spc' = "done"
  /\ UNCHANGED << engineVars, max_pages, urls_to_visit, visited_urls,
                  scraped_content, batch, fetch_results, fetched, links >>

NextScrape ==
  \/ DispatchBatch
  \/ FetchPage
  \/ ProcessResult
  \/ Sleep
  \/ ScrapeReturn

SpecScrape == InitScrape /\ [][NextScrape]_vars

\* the event loop runs the coroutine on: every await of scrape completes (a
\* fetch ends with its response or, after 30 seconds, with its timeout)
SpecScrapeLive == InitScrape /\ [][NextScrape]_vars /\ WF_vars(NextScrape)

----------------------------------------------------------------------------
(* WebsiteScraper._is_valid_url on its own: applied to every candidate URL *)

\* the candidate URLs, what an href of a page can hold:
\* a scheme, an authority, a path and a query or fragment (or none)
CandidateUrls ==
  LET schemes == { <<"h","t","t","p","s">>,
                   <<"h","t","t","p">>,
                   <<"H","T","T","P">>,
                   <<"f","t","p">> }
      netlocs == { <<"e","m",".","b","r">>,
                   <<"E","M",".","b","r">>,
                   <<"e","m",".","b","r",":","4","4","3">>,
                   <<"x",".","b","r">> }
      paths   == { << >>,
                   <<"/","a">>,
                   <<"/","g",".","P","D","F">>,
                   <<"/","w","p","-","i","n","c","l","u","d","e","s","/","x">> }
      tails   == { << >>,
                   <<"?","v","=","1",".","j","s">>,
                   <<"#","t","e","l",":","1">> }
  IN  { s \o <<":","/","/">> \o n \o p \o q :
          s \in schemes, n \in netlocs, p \in paths, q \in tails }
        \cup { HrefA, HrefMail, HrefUploads, << >> }

\* no chat or query call and no session store call has been made
CallsIdle ==
  /\ sessions = [s \in SessionIds |-> NoRow]
  /\ messages = << >>
  /\ now = 0
  /\ turns = 0
  /\ pc = [t \in Turns |-> "idle"]
  /\ kind = [t \in Turns |-> "none"]
  /\ msg = [t \in Turns |-> << >>]
  /\ sid = [t \in Turns |-> "s1"]
  /\ chat_history = [t \in Turns |-> << >>]
  /\ routed_response = [t \in Turns |-> None]
  /\ source_nodes = [t \in Turns |-> << >>]
  /\ response_text = [t \in Turns |-> << >>]
  /\ result = [t \in Turns |-> NoResult]
  /\ exc = [t \in Turns |-> ""]
  /\ trace = [t \in Turns |-> << >>]

InitScope ==
  /\ CallsIdle
  /\ rin \in CandidateUrls
  /\ rout = NoResult
  /\ rphase = "url"
  /\ MemoryOff
  /\ ScraperOff
  /\ IndexOff

\* self._is_valid_url(url), on a scraper constructed with the default base_url
ScopeCall ==
  /\ rphase = "url"
  /\ rout' = [valid |-> _is_valid_url(rin)]
  /\ rphase' = "checked"
  /\ UNCHANGED << storeVars, now, turns, callVars, rin, memoryVars, scraperVars,
                  indexVars >>

NextScope == ScopeCall

SpecScope == InitScope /\ [][NextScope]_vars

----------------------------------------------------------------------------
(* VectorStoreManager and DocumentLoader: the collection and what writes it *)

\* a llama_index Document, as far as the store and the loader look at it:
\* the length of its text and its metadata
Document(n, metadata) == [text_len |-> n, metadata |-> metadata]

\* len(content) < 50 in add_web_content
MIN_CONTENT_LENGTH == 50

\* the Qdrant collection after a failed create_collection
NoCollection == [exists |-> FALSE, points |-> << >>]

\* _ensure_collection: the collection is created when it does not exist; an
\* exception of the client is logged and nothing else happens
_ensure_collection(C, fail) ==
  IF C.exists \/ fail THEN C ELSE EmptyCollection

\* every unit inserted before the failure is counted
M_add_documents_CountsInserted(C, documents, fail) ==
  LET inserted == IF fail = 0 THEN documents ELSE SubSeq(documents, 1, fail - 1)
  IN  [collection |-> [exists |-> C.exists \/ inserted # << >>,
                       points |-> C.points \o inserted],
       ret |-> Len(inserted)]

\* add_documents: the documents are inserted one by one; fail is the index of
\* the insert that raises (the embedding or the upsert), 0 when none does. An
\* insert that succeeds on a missing collection has created it.
add_documents(C, documents, fail) ==
  LET inserted == IF fail = 0 THEN documents ELSE SubSeq(documents, 1, fail - 1)
  IN  [collection |-> [exists |-> C.exists \/ inserted # << >>,
                       points |-> C.points \o inserted],
       ret |-> IF fail = 0 THEN Len(documents) ELSE 0]

\* the items of a scrape result, as add_web_content reads them: the URL and
\* the length of item.get("content", "")
ScrapedItems ==
  { [url |-> "/a", content |-> 0],
    [url |-> "/b", content |-> 49],
    [url |-> "/c", content |-> 50],
    [url |-> "/d", content |-> 101] }

\* the lists handed to add_web_content: up to two items
ScrapedLists ==
  { << >> } \cup { <<x>> : x \in ScrapedItems }
    \cup { p \in ScrapedItems \X ScrapedItems : p[1] # p[2] }

\* the documents add_web_content makes of the items it keeps
WebDocuments(scraped) ==
  LET kept == SelectSeq(scraped,
                        LAMBDA item : ~ (item.content = 0
                                           \/ item.content < MIN_CONTENT_LENGTH))
  IN  << >> \o [i \in DOMAIN kept |->
                  Document(kept[i].content,
                           [url |-> kept[i].url, source |-> "website"])]

\* add_web_content: the documents handed to add_documents (None when it is
\* not called), the collection and the count returned
add_web_content(C, scraped, fail) ==
  LET documents == WebDocuments(scraped)
  IN  IF documents # << >>
        THEN LET r == add_documents(C, documents, fail)
             IN  [collection |-> r.collection, ret |-> r.ret,
                  handed |-> RetList(documents)]
        ELSE [collection |-> C, ret |-> 0, handed |-> None]

\* the collection is not emptied, and True is returned
M_clear_collection_KeepsPoints(C, fail) ==
  [collection |-> [exists |-> TRUE, points |-> C.points], ret |-> TRUE]

\* clear_collection: delete_collection, then create_collection; fail names the
\* call that raises
clear_collection(C, fail) ==
  IF fail = "delete" THEN [collection |-> C, ret |-> FALSE]
  ELSE IF fail = "create" THEN [collection |-> NoCollection, ret |-> FALSE]
  ELSE [collection |-> EmptyCollection, ret |-> TRUE]

\* the entries of the context folder: the name, the suffix, whether it is a
\* regular file, whether its reader can read it, and the lengths of the texts
\* the reader makes of it (one per document)
Files ==
  { [name |-> "a.txt", suffix |-> <<".","t","x","t">>, is_file |-> TRUE,
     read |-> "ok", texts |-> <<120>>],
    [name |-> "b.txt", suffix |-> <<".","t","x","t">>, is_file |-> TRUE,
     read |-> "ok", texts |-> <<0>>],
    [name |-> "c.txt", suffix |-> <<".","t","x","t">>, is_file |-> TRUE,
     read |-> "error", texts |-> << >>],
    [name |-> "d.pdf", suffix |-> <<".","p","d","f">>, is_file |-> TRUE,
     read |-> "ok", texts |-> <<200, 30>>],
    [name |-> "e.pdf", suffix |-> <<".","p","d","f">>, is_file |-> TRUE,
     read |-> "error", texts |-> << >>],
    [name |-> "f.MD", suffix |-> <<".","M","D">>, is_file |-> TRUE,
     read |-> "ok", texts |-> <<80>>],
    [name |-> "g.doc", suffix |-> <<".","d","o","c">>, is_file |-> TRUE,
     read |-> "error", texts |-> << >>],
    [name |-> "h.csv", suffix |-> <<".","c","s","v">>, is_file |-> TRUE,
     read |-> "ok", texts |-> <<60>>],
    [name |-> "i.txt", suffix |-> <<".","t","x","t">>, is_file |-> FALSE,
     read |-> "error", texts |-> << >>] }

\* context_path.iterdir(): up to two entries, in the order of the listing
Directories ==
  { << >> } \cup { <<f>> : f \in Files }
    \cup { p \in Files \X Files : p[1] # p[2] }

SUPPORTED_EXTENSIONS ==
  { <<".","p","d","f">>, <<".","d","o","c","x">>, <<".","d","o","c">>,
    <<".","t","x","t">>, <<".","m","d">> }

\* what a reader returns: its documents; raised is FALSE, as every reader
\* catches the exceptions of its library and returns []
Loaded(documents) == [raised |-> FALSE, documents |-> documents]

\* the documents a reader makes of a file, with the metadata it sets
FileDocuments(file, type) ==
  << >> \o [i \in DOMAIN file.texts |->
              Document(file.texts[i],
                       [source |-> file.name, filename |-> file.name,
                        type |-> type])]

_read_text_file(file) ==
  IF file.read = "ok" THEN Loaded(FileDocuments(file, "text")) ELSE Loaded(<< >>)

\* the exception of the PDF reader is let out
M_read_pdf_Raises(file) ==
  IF file.read = "ok" THEN Loaded(FileDocuments(file, "pdf"))
  ELSE [raised |-> TRUE, documents |-> << >>]

_read_pdf(file) ==
  IF file.read = "ok" THEN Loaded(FileDocuments(file, "pdf")) ELSE Loaded(<< >>)

_read_docx(file) ==
  IF file.read = "ok" THEN Loaded(FileDocuments(file, "docx")) ELSE Loaded(<< >>)

_read_markdown(file) ==
  IF file.read = "ok" THEN Loaded(FileDocuments(file, "markdown"))
  ELSE Loaded(<< >>)

\* load_file: the reader is chosen by file_path.suffix.lower()
load_file(file) ==
  LET extension == Lower(file.suffix)
  IN  IF extension = <<".","p","d","f">> THEN _read_pdf(file)
      ELSE IF extension \in { <<".","d","o","c","x">>, <<".","d","o","c">> }
        THEN _read_docx(file)
      ELSE IF extension = <<".","m","d">> THEN _read_markdown(file)
      ELSE IF extension = <<".","t","x","t">> THEN _read_text_file(file)
      ELSE Loaded(<< >>)

\* load_all: the documents of every supported regular file of the folder, in
\* the order of the listing; an exception of load_file would leave the loop
RECURSIVE load_all(_)
load_all(dir) ==
  IF dir = << >> THEN Loaded(<< >>)
  ELSE LET file == Head(dir)
           first == IF file.is_file /\ Lower(file.suffix) \in SUPPORTED_EXTENSIONS
                      THEN load_file(file) ELSE Loaded(<< >>)
           rest == load_all(Tail(dir))
       IN  IF first.raised THEN first
           ELSE IF rest.raised THEN rest
           ELSE Loaded(first.documents \o rest.documents)

\* the last call of the index harness: its name, the documents it handed to
\* add_documents (None when it made no such call), what it returned and the
\* collection before it
IndexCall(name, handed, ret) ==
  [name |-> name, handed |-> handed, ret |-> ret, before |-> collection]

\* VectorStoreManager(): _ensure_collection, whose create_collection can fail
\* when the collection is missing
Constructed(C) ==
  { _ensure_collection(C, nocreate) : nocreate \in BOOLEAN }

InitIndex ==
  /\ CallsIdle
  /\ rin = << >>
  /\ rout = NoResult
  /\ rphase = "off"
  /\ MemoryOff
  /\ ScraperOff
  /\ IndexOff

\* what load_all can return: its result on each folder of Directories
LoadResults == { load_all(dir) : dir \in Directories }

\* load_all, then add_documents when it returned documents: the try block of
\* lifespan and of reload_context, l being what load_all returned
IndexContext(name, C, l, fail) ==
  IF l.raised
    THEN /\ collection' = C
         /\ index_op' = IndexCall(name, None, None)
  ELSE IF l.documents = << >>
    THEN /\ collection' = C
         /\ index_op' = IndexCall(name, None, RetCount(0))
  ELSE LET r == add_documents(C, l.documents, fail)
       IN  /\ collection' = r.collection
           /\ index_op' = IndexCall(name, RetList(l.documents),
                                    RetCount(r.ret))

\* the inserts of a call that can raise: none (0), or one of the documents
Failures(documents) == 0 .. Len(documents)

\* api.py lifespan: VectorStoreManager() is constructed, then the context
\* folder is loaded and indexed
ApiStartup ==
  /\ turns < MaxIndexCalls
  /\ turns' = turns + 1
  /\ \E l \in LoadResults, C \in Constructed(collection) :
       \E fail \in Failures(l.documents) :
         IndexContext("lifespan", C, l, fail)
  /\ UNCHANGED << storeVars, now, callVars, routerVars, memoryVars, scraperVars >>

\* POST /reload-context
ReloadContext ==
  /\ turns < MaxIndexCalls
  /\ turns' = turns + 1
  /\ \E l \in LoadResults :
       \E fail \in Failures(l.documents) :
         IndexContext("reload_context", collection, l, fail)
  /\ UNCHANGED << storeVars, now, callVars, routerVars, memoryVars, scraperVars >>

\* ingest_content_function: with content in the event, a VectorStoreManager is
\* constructed and add_web_content is called
IngestContent ==
  /\ turns < MaxIndexCalls
  /\ turns' = turns + 1
  /\ \E scraped \in ScrapedLists \ { << >> }, C \in Constructed(collection) :
       \E fail \in Failures(WebDocuments(scraped)) :
         LET r == add_web_content(C, scraped, fail)
         IN  /\ collection' = r.collection
             /\ index_op' = IndexCall("ingest_content", r.handed,
                                      RetCount(r.ret))
  /\ UNCHANGED << storeVars, now, callVars, routerVars, memoryVars, scraperVars >>

\* clear_and_rescrape_function: a VectorStoreManager is constructed and
\* clear_collection is called
ClearAndRescrape ==
  /\ turns < MaxIndexCalls
  /\ turns' = turns + 1
  /\ \E fail \in {"none", "delete", "create"}, C \in Constructed(collection) :
       LET r == clear_collection(C, fail)
       IN  /\ collection' = r.collection
           /\ index_op' = IndexCall("clear_and_rescrape", None, RetBool(r.ret))
  /\ UNCHANGED << storeVars, now, callVars, routerVars, memoryVars, scraperVars >>

NextIndex ==
  \/ ApiStartup
  \/ ReloadContext
  \/ IngestContent
  \/ ClearAndRescrape

SpecIndex == InitIndex /\ [][NextIndex]_vars

----------------------------------------------------------------------------
(* DocumentLoader.load_all on its own: applied to every folder of Directories *)

InitLoad ==
  /\ CallsIdle
  /\ rin \in Directories
  /\ rout = NoResult
  /\ rphase = "folder"
  /\ MemoryOff
  /\ ScraperOff
  /\ IndexOff

\* DocumentLoader().load_all()
LoadAllCall ==
  /\ rphase = "folder"
  /\ rout' = load_all(rin)
  /\ rphase' = "loaded"
  /\ UNCHANGED << storeVars, now, turns, callVars, rin, memoryVars, scraperVars,
                  indexVars >>

NextLoad == LoadAllCall

SpecLoad == InitLoad /\ [][NextLoad]_vars

----------------------------------------------------------------------------
(* Properties *)

\* some pattern of the list occurs in the message, letter case aside
HasPattern(patterns, message) ==
  \E p \in Range(patterns) :
    \E i \in 1..(Len(message) - Len(p) + 1) :
      Lower(SubSeq(message, i, i + Len(p) - 1)) = Lower(p)

\* the message is about a delivery and not about products
SupportMessage(message) ==
  HasPattern(DELIVERY_PATTERNS, message) /\ ~HasPattern(PRODUCT_PATTERNS, message)

\* the messages of the calls that are about a delivery and not about products
SupportMessages == { m \in Messages : SupportMessage(m) }

\* the dict is the support response: the template with the contact email
IsSupportResponse(r) ==
  /\ DOMAIN r = {"response", "routed_to", "success"}
  /\ r.routed_to = "support"
  /\ r.success
  /\ Len(r.response) = Len(SUPPORT_RESPONSE)
  /\ \A i \in DOMAIN SUPPORT_RESPONSE :
       r.response[i] = IF SUPPORT_RESPONSE[i] = "{email}" THEN SUPPORT_EMAIL
                       ELSE SUPPORT_RESPONSE[i]

\* the call t has called the collaborator op / has seen it fail
Called(t, op) == \E i \in DOMAIN trace[t] : trace[t][i].op = op
Failed(t, op) == \E i \in DOMAIN trace[t] : trace[t][i].op = op /\ ~trace[t][i].ok

\* the last external call of t
LastCall(t) == trace[t][Len(trace[t])]

\* the first add_message of a chat call is the one of the user message
UserAdd(t) ==
  trace[t][CHOOSE i \in DOMAIN trace[t] :
             /\ trace[t][i].op = "add_message"
             /\ \A j \in 1..(i - 1) : trace[t][j].op # "add_message"]

\* the chat call t ended in its except branch
ChatTurnFailed(t) ==
  kind[t] = "chat" /\ pc[t] = "done" /\ ~result[t].success

\* the session of t holds a user message with t's text
UserMessageInHistory(t) ==
  \E i \in DOMAIN messages :
    /\ messages[i].session_id = sid[t]
    /\ messages[i].role = "user"
    /\ messages[i].content = msg[t]

\* C1: route returns the support response iff a delivery pattern matches the
\* message, letter case aside, and no product pattern does; else it returns None.
C1_RouteIffDeliveryAndNoProduct ==
  rphase = "routed" =>
    /\ IsSupportResponse(rout) <=> SupportMessage(rin)
    /\ ~SupportMessage(rin) => rout = None

\* C1 witness: a message in capitals with a delivery word has been routed to support
C1_Witness ==
  /\ rphase = "routed"
  /\ IsSupportResponse(rout)
  /\ Lower(rin) # rin

\* C2: "Qual o status da minha entrega?" is routed to support and "Voces tem
\* vidro temperado para entrega residencial?" (with the circumflex of the
\* plural "tem") is not.
C2_RoutingPrecedenceExamples ==
  rphase = "routed" =>
    /\ rin = MsgDeliveryOnly => IsSupportResponse(rout)
    /\ rin = MsgProductDelivery => rout = None

\* C3, as claimed: after a chat turn whose retrieval or generation raised, the
\* history of the session contains the turn's user message.
C3_UserMessageInHistoryAfterFailure ==
  \A t \in Turns : ChatTurnFailed(t) => UserMessageInHistory(t)

\* C3, amended: chat calls add_message for the user message before it routes,
\* loads the history, retrieves or generates; and when that add_message
\* succeeded, the row it wrote is the user message of the session, from then on
\* and also after the turn has failed.
C3_UserMessageStoredBeforeRouting ==
  \A t \in Turns : kind[t] = "chat" =>
    /\ \A i \in DOMAIN trace[t] :
         trace[t][i].op \in {"route", "get_chat_history", "retrieve", "complete"}
           => \E j \in 1..(i - 1) : trace[t][j].op = "add_message"
    /\ (Called(t, "add_message") /\ UserAdd(t).ok) =>
         /\ UserAdd(t).row \in DOMAIN messages
         /\ messages[UserAdd(t).row].session_id = sid[t]
         /\ messages[UserAdd(t).row].role = "user"
         /\ messages[UserAdd(t).row].content = msg[t]

\* C3 witness: a turn failed in generation and its user message is in the store
C3_Witness ==
  \E t \in Turns :
    /\ ChatTurnFailed(t)
    /\ Failed(t, "complete")
    /\ UserAdd(t).ok
    /\ UserMessageInHistory(t)

\* C4, as claimed: a chat turn routed to support calls neither the retrieval nor
\* the completion, the support text is the assistant message stored last in
\* the session, and the result has sources=[] and routed_to="support".
C4_SupportTurnPersisted ==
  \A t \in Turns : (kind[t] = "chat" /\ msg[t] \in SupportMessages) =>
    /\ ~Called(t, "retrieve") /\ ~Called(t, "complete")
    /\ pc[t] = "done" =>
         /\ result[t].sources = << >>
         /\ result[t].routed_to = "support"
         /\ messages # << >>
         /\ messages[Len(messages)].session_id = sid[t]
         /\ messages[Len(messages)].role = "assistant"
         /\ messages[Len(messages)].content = result[t].response

\* C4, amended: a chat turn routed to support calls neither the retrieval nor
\* the completion, hands the support text (with the contact email) to
\* add_message as the assistant message, which is stored when that call
\* succeeds, and returns it with sources=[] and routed_to="support".
C4_SupportTurnSkipsRetrieval ==
  \A t \in Turns : (kind[t] = "chat" /\ msg[t] \in SupportMessages) =>
    /\ ~Called(t, "retrieve") /\ ~Called(t, "complete")
    /\ pc[t] = "done" =>
         /\ result[t].sources = << >>
         /\ result[t].routed_to = "support"
         /\ result[t].session_id = sid[t]
         /\ IsSupportResponse([response |-> result[t].response,
                               routed_to |-> result[t].routed_to,
                               success |-> result[t].success])
         /\ LastCall(t).op = "add_message"
         /\ LastCall(t).ok =>
              /\ messages[LastCall(t).row].session_id = sid[t]
              /\ messages[LastCall(t).row].role = "assistant"
              /\ messages[LastCall(t).row].content = result[t].response
              /\ LastCall(t).row = Len(messages)

\* C4 witness: a support turn has returned and its support text is stored
C4_Witness ==
  \E t \in Turns :
    /\ kind[t] = "chat" /\ pc[t] = "done"
    /\ msg[t] \in SupportMessages
    /\ LastCall(t).ok
    /\ messages[Len(messages)].content = Format(SUPPORT_RESPONSE, SUPPORT_EMAIL)

\* the external calls of a chat turn, create_session aside, in their order
OpsRouted == <<"get_session", "add_message", "route", "add_message">>

OpsAnswered ==
  <<"get_session", "add_message", "route", "get_chat_history", "retrieve",
    "complete", "add_message">>

IsPrefix(a, b) == Len(a) <= Len(b) /\ SubSeq(b, 1, Len(a)) = a

\* the calls made by t, the optional create_session (second call) left out
OpsOf(t) ==
  LET ops == [i \in DOMAIN trace[t] |-> trace[t][i].op]
  IN  SelectSeq(ops, LAMBDA o : o # "create_session")

\* the sources recorded on a stored message
SourcesOf(row) == IF row.metadata = NULL THEN << >> ELSE Loads(row.metadata).sources

\* C5: the steps of a chat turn come in the order ensure session, store the
\* user message, route, then load history, retrieve, generate, then store the
\* assistant message, then return; in an answered turn the assistant message
\* is stored after the completion returned, with the sources of the result,
\* and the result is {response, session_id, sources, success=true}.
C5_ChatStepsSequential ==
  \A t \in Turns : kind[t] = "chat" =>
    /\ IsPrefix(OpsOf(t), OpsRouted) \/ IsPrefix(OpsOf(t), OpsAnswered)
    /\ \A i \in DOMAIN trace[t] : trace[t][i].op = "create_session" => i = 2
    /\ (pc[t] = "done" /\ Called(t, "complete") /\ result[t].success) =>
         /\ OpsOf(t) = OpsAnswered
         /\ DOMAIN result[t] = {"response", "session_id", "sources", "success"}
         /\ result[t].session_id = sid[t]
         /\ result[t].response = response_text[t]
         /\ result[t].sources = source_nodes[t]
         /\ LastCall(t).ok =>
              /\ messages[LastCall(t).row].session_id = sid[t]
              /\ messages[LastCall(t).row].role = "assistant"
              /\ messages[LastCall(t).row].content = result[t].response
              /\ SourcesOf(messages[LastCall(t).row]) = result[t].sources

\* C5 witness: an answered turn with a source has stored its assistant message
C5_Witness ==
  \E t \in Turns :
    /\ kind[t] = "chat" /\ pc[t] = "done" /\ result[t].success
    /\ Called(t, "complete")
    /\ LastCall(t).ok
    /\ result[t].sources # << >>
    /\ messages[LastCall(t).row].metadata # NULL

\* C6: chat never raises: when the retrieval or the generation raised, it
\* returns the fixed apology with success=false, sources=[] and the caller's
\* session_id.
C6_ChatNeverRaises ==
  \A t \in Turns : kind[t] = "chat" =>
    /\ pc[t] # "raised"
    /\ (pc[t] = "done" /\ (Failed(t, "retrieve") \/ Failed(t, "complete"))) =>
         /\ result[t].response = CHAT_ERROR_RESPONSE
         /\ result[t].success = FALSE
         /\ result[t].sources = << >>
         /\ result[t].session_id = sid[t]

\* C6 witness: a turn whose retrieval raised has returned the apology
C6_Witness ==
  \E t \in Turns :
    /\ kind[t] = "chat" /\ pc[t] = "done"
    /\ Failed(t, "retrieve")
    /\ result[t].response = CHAT_ERROR_RESPONSE

\* C7: the result of a failed chat turn or query has no field holding the
\* text of the exception.
C7_NoRawErrorInResult ==
  \A t \in Turns :
    (pc[t] = "done" /\ ~result[t].success) => "error" \notin DOMAIN result[t]

\* C8: no step of a query call creates or updates a session or appends a message.
C8_QueryLeavesStoreUnchanged ==
  [][(\E t \in Turns : kind'[t] = "query") => UNCHANGED << sessions, messages >>]_vars

\* C8 witness: a query has been answered while the store holds a session's messages
C8_Witness ==
  \E t \in Turns :
    /\ kind[t] = "query" /\ pc[t] = "done"
    /\ Called(t, "complete") /\ result[t].success
    /\ messages # << >>

\* C9: when the vector database raises during the search, search returns []
\* and query returns the "nothing relevant found" response with sources=[] and
\* success=true, without calling the completion service.
C9_SearchFailureDegrades ==
  \A t \in Turns : (kind[t] = "query" /\ Failed(t, "search")) =>
    /\ source_nodes[t] = << >>
    /\ pc[t] = "done"
    /\ result[t].response = NOT_FOUND_RESPONSE
    /\ result[t].sources = << >>
    /\ result[t].success = TRUE
    /\ "error" \notin DOMAIN result[t]
    /\ ~Called(t, "complete")

\* C9 witness: a query whose search raised has returned
C9_Witness ==
  \E t \in Turns : kind[t] = "query" /\ Failed(t, "search") /\ pc[t] = "done"

StoreOps == {"get_session", "create_session", "add_message", "get_chat_history"}

\* C10: a failing session store call never fails the chat turn: a turn fails
\* only when the retrieval or the generation raised, a history that could not
\* be loaded is the empty history, and a turn whose retrieval and generation
\* succeeded returns success=true.
C10_StoreFailureNeverFailsTurn ==
  \A t \in Turns : kind[t] = "chat" =>
    /\ pc[t] # "raised"
    /\ (pc[t] = "except" \/ (pc[t] = "done" /\ ~result[t].success)) =>
         (Failed(t, "retrieve") \/ Failed(t, "complete"))
    /\ Failed(t, "get_chat_history") => chat_history[t] = << >>
    /\ (pc[t] = "done" /\ Called(t, "complete") /\ ~Failed(t, "complete")) =>
         result[t].success = TRUE

\* C10 witness: a turn in which every session store call failed has returned
\* success=true
C10_Witness ==
  \E t \in Turns :
    /\ kind[t] = "chat" /\ pc[t] = "done" /\ result[t].success
    /\ Called(t, "complete")
    /\ \A i \in DOMAIN trace[t] : trace[t][i].op \in StoreOps => ~trace[t][i].ok

----------------------------------------------------------------------------
(* Properties of the session store *)

\* the roles and contents of a list of messages
Contents(h) ==
  [i \in DOMAIN h |-> [role |-> h[i].role, content |-> h[i].content]]

NonDecreasing(h) ==
  \A i, j \in DOMAIN h : i < j => h[i].timestamp <= h[j].timestamp

\* C11: the log of a session is append-only: for a session that no delete
\* removed, with N the number of add_message calls that returned True,
\* get_chat_history with any limit >= N returns exactly those N messages, in
\* the order they were added, with non-decreasing timestamps; so does every
\* get_chat_history call that was made with such a limit.
C11_LogAppendOnly ==
  /\ \A s \in SessionIds : s \notin deleted =>
       \A k \in Limits : k >= Len(added[s]) =>
         LET h == get_chat_history(messages, s, k)
         IN  Contents(h) = added[s] /\ NonDecreasing(h)
  /\ ( /\ store_op.name = "get_chat_history" /\ store_op.ok
       /\ store_op.sid \notin deleted
       /\ store_op.arg.limit >= Len(added[store_op.sid]) ) =>
       /\ Contents(store_op.ret.list) = added[store_op.sid]
       /\ NonDecreasing(store_op.ret.list)

\* C11 witness: get_chat_history returned the two messages of a session, added
\* at different seconds, the earlier one first
C11_Witness ==
  /\ store_op.name = "get_chat_history" /\ store_op.ok
  /\ store_op.sid \notin deleted
  /\ Len(added[store_op.sid]) = 2
  /\ store_op.arg.limit >= 2
  /\ Len(store_op.ret.list) = 2
  /\ store_op.ret.list[1].timestamp < store_op.ret.list[2].timestamp
  /\ store_op.ret.list[1].role # store_op.ret.list[2].role

\* C12: get_chat_history(id, limit=k) with k >= 0 returns at most k messages.
C12_HistoryAtMostLimit ==
  (store_op.name = "get_chat_history" /\ store_op.arg.limit >= 0) =>
    Len(store_op.ret.list) <= store_op.arg.limit

\* C13: add_message is all or nothing: a call that returns True has left the
\* session row in place, has appended exactly its message and has set the
\* session's updated_at to the time of the write; a call that returns False
\* has left both tables as they were (no session row, no message).
C13_AddMessageAtomic ==
  [][store_op'.name = "add_message" =>
       LET s == store_op'.sid
       IN  \/ /\ store_op'.ret = RetBool(TRUE)
              /\ sessions'[s].exists
              /\ sessions'[s].updated_at = now'
              /\ \A u \in SessionIds \ {s} : sessions'[u] = sessions[u]
              /\ Len(messages') = Len(messages) + 1
              /\ SubSeq(messages', 1, Len(messages)) = messages
              /\ messages'[Len(messages')].session_id = s
              /\ messages'[Len(messages')].role = store_op'.arg.role
           \/ /\ store_op'.ret = RetBool(FALSE)
              /\ UNCHANGED << sessions, messages >>]_vars

\* C13 witness: add_message on a session without a row failed, and an earlier
\* add_message on the other session had committed
C13_Witness ==
  /\ store_op.name = "add_message" /\ ~store_op.ok
  /\ ~sessions[store_op.sid].exists
  /\ \E s \in SessionIds \ {store_op.sid} :
       sessions[s].exists /\ Len(added[s]) = 1

\* C14: after delete_session(id) returned True no message of that session is
\* left in the store: get_chat_history(id) is the empty list.
C14_DeleteCascades ==
  (store_op.name = "delete_session" /\ store_op.ret = RetBool(TRUE)) =>
    get_chat_history(messages, store_op.sid, MaxRows + 1) = << >>

\* C15: create_session on a session that exists with the same metadata leaves
\* the session's created_at and metadata, and the messages, as they were.
C15_CreateSessionIdempotent ==
  [][( /\ store_op'.name = "create_session" /\ store_op'.ok
       /\ sessions[store_op'.sid].exists
       /\ sessions[store_op'.sid].metadata = Dumps(store_op'.arg.metadata) ) =>
       /\ sessions'[store_op'.sid].exists
       /\ sessions'[store_op'.sid].created_at = sessions[store_op'.sid].created_at
       /\ sessions'[store_op'.sid].metadata = sessions[store_op'.sid].metadata
       /\ messages' = messages]_vars

\* the value each operation returns when the storage raised
SafeDefault(name) ==
  CASE name \in {"create_session", "add_message", "delete_session"} -> RetBool(FALSE)
    [] name \in {"get_chat_history", "list_sessions"} -> RetList(<< >>)
    [] name = "get_session" -> None
    [] name = "clear_old_sessions" -> RetCount(0)

\* C16: a session store operation whose storage call raised returns its safe
\* default (False, the empty list, None or 0) and leaves the sessions and the
\* messages as they were.
C16_StoreFailureSafeDefault ==
  [][~store_op'.ok =>
       /\ store_op'.ret = SafeDefault(store_op'.name)
       /\ UNCHANGED << sessions, messages >>]_vars

\* C16 witness: delete_session failed on a session that has a row and a message
C16_Witness ==
  /\ store_op.name = "delete_session" /\ ~store_op.ok
  /\ store_op.ret = RetBool(FALSE)
  /\ sessions[store_op.sid].exists
  /\ Len(added[store_op.sid]) >= 1

----------------------------------------------------------------------------
(* Properties of the crawl *)

NoDuplicates(q) == \A i, j \in DOMAIN q : i # j => q[i] # q[j]

\* C17: in every state of a crawl the number of visited URLs is at most the
\* page budget (visited_urls, a set, holds no URL twice).
C17_VisitedWithinBudget == Cardinality(visited_urls) <= max_pages

\* C18: the frontier never holds the same URL twice, and a step of the crawl
\* only appends to it URLs that are new: not visited, and not queued before.
C18_FrontierGainsOnlyNew ==
  /\ [](NoDuplicates(urls_to_visit))
  /\ [][spc = "process" =>
          /\ IsPrefix(urls_to_visit, urls_to_visit')
          /\ \A k \in (Len(urls_to_visit) + 1) .. Len(urls_to_visit') :
               /\ urls_to_visit'[k] \notin visited_urls'
               /\ urls_to_visit'[k] \notin Range(urls_to_visit)
               /\ urls_to_visit'[k] \in Range(links')]_vars

\* C18 witness: of the links of the page just processed one was visited, one
\* was queued already and one was appended
C18_Witness ==
  /\ spc \in {"process", "sleep"}
  /\ \E a, b, c \in DOMAIN links :
       /\ links[a] \in visited_urls
       /\ links[b] \in Range(urls_to_visit) /\ links[c] = links[b] /\ b < c
       /\ links[b] \notin visited_urls

\* C19: the URLs fetched concurrently, those of one batch, are pairwise
\* distinct.
C19_BatchUrlsDistinct ==
  spc = "gather" => NoDuplicates(batch)

\* C19 witness: two fetches of a batch are in flight at the same time
C19_Witness ==
  /\ spc = "gather"
  /\ \E i, j \in DOMAIN batch :
       i # j /\ fetch_results[i] = NotDone /\ fetch_results[j] = NotDone

\* C20: a failed fetch never aborts the crawl: gather returns a result for
\* every URL of the batch, a result without html is skipped (nothing visited,
\* recorded or queued) and the results after it are processed, and scrape
\* ends only by its loop condition, returning the records accumulated.
C20_FetchFailureSkipped ==
  [][/\ spc = "gather" => spc' # "raised"
     /\ (spc = "gather" /\ spc' = "process") =>
          \A i \in DOMAIN batch :
            fetch_results'[i] # NotDone /\ fetch_results'[i].url = batch[i]
     /\ (spc = "process" /\ Head(fetch_results).html = None) =>
          /\ UNCHANGED << visited_urls, scraped_content, urls_to_visit >>
          /\ fetch_results' = Tail(fetch_results)
          /\ spc' \in {"process", "sleep"}
     /\ (spc # "done" /\ spc' = "done") =>
          /\ urls_to_visit = << >> \/ Cardinality(visited_urls) >= max_pages
          /\ scrape_result' = RetList(scraped_content)]_vars

\* C20 witness: scrape has returned; in its last batch the fetch of one URL
\* failed and a URL after it was fetched, visited and recorded
C20_Witness ==
  /\ spc = "done"
  /\ \E i, j \in DOMAIN batch :
       /\ i < j
       /\ batch[i] \notin visited_urls
       /\ CopiesIn([url |-> batch[i], ok |-> FALSE], fetched) = 1
       /\ CopiesIn([url |-> batch[i], ok |-> TRUE], fetched) = 0
       /\ CopiesIn([url |-> batch[j], ok |-> TRUE], fetched) = 1
       /\ batch[j] \in visited_urls
       /\ \E k \in DOMAIN scrape_result.list :
            scrape_result.list[k].url = batch[j]

\* the fetches that have completed with a 200 response / at all, for a URL
FetchedOk(url) == CopiesIn([url |-> url, ok |-> TRUE], fetched)
Fetches(url) == FetchedOk(url) + CopiesIn([url |-> url, ok |-> FALSE], fetched)

C23_ScrapeTerminatesAndReturns ==
  <>(spc = "done" /\ scrape_result = RetList(scraped_content))

\* the fetches of the batch that have not completed
InFlight == { i \in DOMAIN fetch_results : fetch_results[i] = NotDone }

\* C24: at every moment at most BATCH_SIZE fetches are in flight, all of one
\* batch, and a batch is dispatched only when every fetch of the batch before
\* it has completed and its result has been processed.
C24_BoundedParallelism ==
  /\ [](/\ Cardinality(InFlight) <= BATCH_SIZE
        /\ InFlight # { } => (spc = "gather" /\ Len(batch) <= BATCH_SIZE))
  /\ [][batch' # batch => (InFlight = { } /\ fetch_results = << >>)]_vars

\* C24 witness: five fetches are in flight and a sixth URL waits on the frontier
C24_Witness ==
  /\ spc = "gather"
  /\ Cardinality(InFlight) = BATCH_SIZE
  /\ urls_to_visit # << >>

\* C25: after the results of a batch have been processed the crawler sleeps,
\* and a batch is dispatched only from the loop condition, which is reached
\* again only through that sleep.
C25_PauseBetweenBatches ==
  [][/\ (spc = "process" /\ spc' # "process") => spc' \in {"sleep", "raised"}
     /\ spc' = "loop" => spc \in {"loop", "sleep"}
     /\ (spc' = "gather" /\ spc # "gather") => spc = "loop"]_vars

\* C25 witness: a second batch is in flight
C25_Witness ==
  /\ spc = "gather"
  /\ visited_urls # { }
  /\ InFlight # { }

----------------------------------------------------------------------------
(* Properties of the crawl scope *)

\* the first index of text at which one of the characters stands, or
\* Len(text) + 1 when none does
FirstOf(text, chars) ==
  LET at == { k \in 1 .. Len(text) : text[k] \in chars }
  IN  IF at = { } THEN Len(text) + 1
      ELSE CHOOSE k \in at : \A j \in at : k <= j

\* the host of a URL: its authority without the port, letter case aside
HostOf(url) ==
  LET netloc == urlparse(url).netloc
  IN  Lower(SubSeq(netloc, 1, FirstOf(netloc, {":"}) - 1))

\* the path of a URL: what follows the authority, up to the query or fragment
PathOf(url) ==
  LET rest == urlparse(url).path
  IN  SubSeq(rest, 1, FirstOf(rest, {"?", "#"}) - 1)

\* the path holds a denylisted extension or substring, letter case aside
PathDenylisted(url) ==
  \E k \in DOMAIN skip_patterns : Contains(Lower(PathOf(url)), skip_patterns[k])

InScope(url) ==
  /\ HostOf(url) = HostOf(base_url)
  /\ urlparse(url).scheme \in { <<"h","t","t","p">>, <<"h","t","t","p","s">> }
  /\ ~PathDenylisted(url)

\* C21: _is_valid_url(url) is true if and only if the host of the URL is the
\* base host, its scheme is http or https and its path matches no denylisted
\* extension or substring
C21_ValidIffInScope ==
  rphase = "checked" => (rout.valid <=> InScope(rin))

----------------------------------------------------------------------------
(* Properties of the index store and the document loader *)

\* the step is a call that handed documents to add_documents
AddDocumentsStep ==
  /\ turns' = turns + 1
  /\ index_op'.name # "none"
  /\ index_op'.handed # None

\* C26: callers of add_documents see success or total failure: either every
\* unit was inserted and len(units) is returned, or 0 is returned and no unit
\* of the call is in the store.
C26_AllOrNothing ==
  [][AddDocumentsStep =>
       LET units == index_op'.handed.list
       IN  \/ /\ index_op'.ret = RetCount(Len(units))
              /\ collection'.points = collection.points \o units
           \/ /\ index_op'.ret = RetCount(0)
              /\ collection'.points = collection.points]_vars

\* C26, amended: either every unit was inserted and len(units) is returned, or
\* 0 is returned and the units before the one whose insert failed, and no
\* other, have been inserted.
C26_AllOrPrefix ==
  [][AddDocumentsStep =>
       LET units == index_op'.handed.list
       IN  \/ /\ index_op'.ret = RetCount(Len(units))
              /\ collection'.points = collection.points \o units
           \/ /\ index_op'.ret = RetCount(0)
              /\ \E k \in 0 .. (Len(units) - 1) :
                   collection'.points = collection.points \o SubSeq(units, 1, k)]_vars

\* C26 witness: add_documents has returned 0 for two units, and the first of
\* them is in the store
C26_Witness ==
  /\ index_op.handed # None
  /\ index_op.ret = RetCount(0)
  /\ Len(index_op.handed.list) = 2
  /\ collection.points = index_op.before.points \o <<index_op.handed.list[1]>>

\* C27: after clear_collection has returned, the collection exists and holds
\* no chunks.
C27_ClearLeavesEmptyCollection ==
  index_op.name = "clear_and_rescrape" => collection = EmptyCollection

\* C27, amended: after clear_collection has returned True, the collection
\* exists and holds no chunks; after it has returned False, the collection
\* holds what it held before, or it is missing.
C27_ClearedWhenTrue ==
  index_op.name = "clear_and_rescrape" =>
    /\ index_op.ret \in { RetBool(TRUE), RetBool(FALSE) }
    /\ index_op.ret = RetBool(TRUE) => collection = EmptyCollection
    /\ index_op.ret = RetBool(FALSE) =>
         \/ collection.points = index_op.before.points
         \/ collection = NoCollection

\* C27 witness: clear_collection has returned True on a collection that held
\* chunks
C27_Witness ==
  /\ index_op.name = "clear_and_rescrape"
  /\ index_op.ret = RetBool(TRUE)
  /\ index_op.before.points # << >>
  /\ collection = EmptyCollection

\* C28: every unit handed to add_documents, from add_web_content or from
\* load_all, has a text of at least the minimum length and a source in its
\* metadata.
C28_HandedUnitsWellFormed ==
  index_op.handed # None =>
    \A i \in DOMAIN index_op.handed.list :
      LET unit == index_op.handed.list[i]
      IN  /\ unit.text_len > 0
          /\ unit.text_len >= MIN_CONTENT_LENGTH
          /\ "source" \in DOMAIN unit.metadata

\* the file is a supported file that its reader can read
Readable(file) ==
  /\ file.is_file
  /\ Lower(file.suffix) \in SUPPORTED_EXTENSIONS
  /\ file.read = "ok"

\* the units of the readable files of a folder, in the order of the listing:
\* of each one the file it comes from and the length of its text
RECURSIVE ExpectedUnits(_)
ExpectedUnits(dir) ==
  IF dir = << >> THEN << >>
  ELSE (IF Readable(Head(dir))
          THEN << >> \o [i \in DOMAIN Head(dir).texts |->
                           [filename |-> Head(dir).name,
                            text_len |-> Head(dir).texts[i]]]
          ELSE << >>) \o ExpectedUnits(Tail(dir))

\* C29: load_all returns, whatever the readers meet: a file whose reader fails
\* contributes nothing, and the result is the concatenation of the units of
\* the supported files that were read.
C29_LoadAllIsolatesFailures ==
  rphase = "loaded" =>
    /\ ~rout.raised
    /\ << >> \o [i \in DOMAIN rout.documents |->
                   [filename |-> rout.documents[i].metadata.filename,
                    text_len |-> rout.documents[i].text_len]]
         = ExpectedUnits(rin)

\* C29 witness: the reader of the first file of the folder failed, and the
\* units of the second file have been returned
C29_Witness ==
  /\ rphase = "loaded"
  /\ Len(rin) = 2
  /\ rin[1].is_file /\ Lower(rin[1].suffix) \in SUPPORTED_EXTENSIONS
  /\ rin[1].read = "error"
  /\ Readable(rin[2])
  /\ rout.documents # << >>
  /\ \A i \in DOMAIN rout.documents :
       rout.documents[i].metadata.filename = rin[2].name

----------------------------------------------------------------------------
(* Properties of two concurrent chat calls *)

\* the add_message calls a process has made, in order: the first is for the
\* user message, the second for the assistant message
AddCalls(t) == SelectSeq(trace[t], LAMBDA c : c.op = "add_message")

\* the add_message calls of a process that committed
CommittedCalls(t) == SelectSeq(AddCalls(t), LAMBDA c : c.ok)

\* the rows of the shared session with the given role
RowsOf(role) ==
  { k \in DOMAIN messages :
      messages[k].session_id = SharedSession /\ messages[k].role = role }

\* the turn of the process has returned an answer or the support response
Completed(t) == pc[t] = "done" /\ result[t].success

\* C30: when two chat turns for the same session run concurrently, the session
\* ends with both user messages and the assistant message of every turn that
\* completed, none of them twice, and with exactly one session row.
C30_NoMessageLostOrDuplicated ==
  (\A t \in Workers : pc[t] = "done") =>
    /\ Cardinality(RowsOf("user")) = Cardinality(Workers)
    /\ \A t \in Workers : \E k \in RowsOf("user") : messages[k].content = msg[t]
    /\ Cardinality(RowsOf("assistant")) =
         Cardinality({ t \in Workers : Completed(t) })
    /\ { s \in SessionIds : sessions[s].exists } = { SharedSession }

\* C30, amended: under every interleaving the log of the session holds, in
\* the order of the commits, one row for every add_message call that
\* committed and no other row: no committed message is lost, replaced or
\* duplicated, and there is at most one session row, which exists as soon as
\* a message is stored.
C30_CommittedMessagesKept ==
  /\ [](/\ Len(messages) = Len(CommittedCalls(1)) + Len(CommittedCalls(2))
        /\ \A t \in Workers :
             LET a == AddCalls(t)
             IN  /\ (Len(a) >= 1 /\ a[1].ok) =>
                      /\ a[1].row \in RowsOf("user")
                      /\ messages[a[1].row].content = msg[t]
                 /\ (Len(a) >= 2 /\ a[2].ok) =>
                      /\ a[2].row \in RowsOf("assistant")
                      /\ a[1].ok => a[1].row < a[2].row
        /\ \A c \in Range(CommittedCalls(1)), d \in Range(CommittedCalls(2)) :
             c.row # d.row
        /\ { s \in SessionIds : sessions[s].exists } \subseteq { SharedSession }
        /\ messages # << >> => sessions[SharedSession].exists)
  /\ [][IsPrefix(messages, messages')]_vars

\* C30 witness: both processes found no session and created it, their writes
\* interleaved (user, user, assistant, assistant), and both turns completed
C30_Witness ==
  /\ \A t \in Workers :
       /\ Completed(t)
       /\ \E i \in DOMAIN trace[t] :
            trace[t][i].op = "create_session" /\ trace[t][i].ok
  /\ Len(messages) = 4
  /\ messages[1].role = "user" /\ messages[2].role = "user"
  /\ messages[3].role = "assistant" /\ messages[4].role = "assistant"

----------------------------------------------------------------------------
(* Properties of the crawl: dispatch, marking, scope, order and result *)

\* C31: a fetch is never dispatched for a URL that is already in visited_urls,
\* and within one crawl run every URL is fetched at most once.
C31_FetchedAtMostOnce ==
  /\ spc = "gather" => \A i \in DOMAIN batch : batch[i] \notin visited_urls
  /\ \A f \in BagToSet(fetched) : Fetches(f.url) <= 1

PageUrls ==
  UNION { { urljoin(x[1], x[2].anchors[i]) : i \in DOMAIN x[2].anchors } :
            x \in {base_url, UrlA, UrlB, UrlC, UrlD, UrlE, UrlF}
                    \X { q \in HomePages \cup InnerPages :
                           ~ ExtractRaises(q, base_url) } }
InScopeUrls == { u \in PageUrls : _is_valid_url(u) }

\* C33: in every state of a crawl each URL on the frontier, in the batch cut
\* off it or in visited_urls is the base URL or a URL for which _is_valid_url
\* is true; the links extracted from a page are all such URLs.
C33_FrontierInScope ==
  /\ \A u \in Range(urls_to_visit) \cup Range(batch) \cup visited_urls :
       u = base_url \/ u \in InScopeUrls
  /\ \A i \in DOMAIN links : links[i] \in InScopeUrls

\* C33 witness: the home page has been processed; some of its anchors were
\* discarded and the others are on the frontier
C33_Witness ==
  /\ visited_urls = {base_url}
  /\ urls_to_visit # << >>
  /\ \E p \in HomePages :
       /\ links = _extract_links(p, base_url)
       /\ Len(links) < Len(p.anchors)
       /\ \E i \in DOMAIN p.anchors : ~ _is_valid_url(urljoin(base_url, p.anchors[i]))
       /\ \A i \in DOMAIN links : links[i] = base_url \/ links[i] \in Range(urls_to_visit)

\* C34: the frontier is a FIFO queue seeded with the base URL: a batch is the
\* front of the frontier in its order and the rest keeps its order, and every
\* other step leaves the frontier as it is or appends at its end; so URLs are
\* dispatched in the order in which they were appended.
C34_FrontierFifo ==
  /\ urls_to_visit = <<base_url>>
  /\ [][IF spc = "loop" /\ spc' = "gather"
          THEN /\ batch' \o urls_to_visit' = urls_to_visit
               /\ batch' # << >>
          ELSE /\ IsPrefix(urls_to_visit, urls_to_visit')
               /\ batch' = batch]_vars

\* C34 witness: the six links of a home page were appended in the order of the
\* page; the first five are dispatched in that order and the sixth waits
C34_Witness ==
  /\ spc = "gather"
  /\ batch = <<UrlA, UrlB, UrlC, UrlD, UrlE>>
  /\ urls_to_visit = <<UrlF>>
  /\ links = batch \o urls_to_visit

\* C35: the records of a crawl, and so the list scrape returns, hold at most
\* one record per URL; every record's URL is in visited_urls and its text is
\* longer than 100 characters; the number of records never exceeds the number
\* of visited URLs.
C35_RecordsOfVisitedPages ==
  /\ \A i, j \in DOMAIN scraped_content :
       i # j => scraped_content[i].url # scraped_content[j].url
  /\ \A i \in DOMAIN scraped_content :
       /\ scraped_content[i].url \in visited_urls
       /\ scraped_content[i].content_length > MIN_TEXT_LENGTH
  /\ Len(scraped_content) <= Cardinality(visited_urls)
  /\ spc = "done" => scrape_result = RetList(scraped_content)

\* C35 witness: scrape has returned a record for a URL that was fetched twice,
\* and fewer records than URLs visited, a visited page being too short
C35_Witness ==
  /\ spc = "done"
  /\ Len(scrape_result.list) < Cardinality(visited_urls)
  /\ \E i \in DOMAIN scrape_result.list : FetchedOk(scrape_result.list[i].url) = 2

\* C36: the page budget is tested only before a batch is cut off the frontier
\* and a batch has at most 5 URLs: visited_urls grows only while a batch that
\* was dispatched under the budget is processed, and in every state of a crawl
\* its size is at most max_pages + 4.
C36_VisitedWithinBudgetPlusBatch ==
  /\ [](/\ Cardinality(visited_urls) <= max_pages + BATCH_SIZE - 1
        /\ Len(batch) <= BATCH_SIZE)
  /\ [][/\ (spc = "loop" /\ spc' = "gather") =>
            Cardinality(visited_urls) < max_pages
        /\ visited_urls' # visited_urls =>
            /\ spc = "process"
            /\ Cardinality(visited_urls') <= max_pages + Len(batch) - 1]_vars

\* C36 witness: a batch of 5 URLs was dispatched one page short of the budget
\* and all five pages were visited: the budget is exceeded by 4
C36_Witness ==
  /\ Len(batch) = BATCH_SIZE
  /\ Cardinality(visited_urls) = max_pages + BATCH_SIZE - 1

----------------------------------------------------------------------------
(* Properties of the chat turns and of the history they load *)

\* every session store call made so far has succeeded
StoreWorks ==
  \A t \in Workers : \A i \in DOMAIN trace[t] :
    trace[t][i].op \in StoreOps => trace[t][i].ok

\* C37: provided the session store works, every chat turn appends exactly one
\* user message and at most one assistant message to its session: user then
\* assistant for a support turn or a successful turn, the user message only
\* for a failed turn, and nothing else is appended; so the assistant messages
\* of a session are never more than its user messages.
C37_TurnAppendsUserThenAssistant ==
  StoreWorks =>
    /\ Len(messages) = Len(AddCalls(1)) + Len(AddCalls(2))
    /\ \A t \in Workers :
         LET a == AddCalls(t)
         IN  /\ Len(a) <= 2
             /\ Len(a) >= 1 =>
                  /\ messages[a[1].row].session_id = sid[t]
                  /\ messages[a[1].row].role = "user"
                  /\ messages[a[1].row].content = msg[t]
             /\ Len(a) = 2 =>
                  /\ a[1].row < a[2].row
                  /\ messages[a[2].row].session_id = sid[t]
                  /\ messages[a[2].row].role = "assistant"
                  /\ messages[a[2].row].content =
                       IF routed_response[t] # None
                         THEN routed_response[t].response ELSE response_text[t]
             /\ pc[t] \in {"route", "history", "retrieve", "generate", "except",
                           "add_support", "add_assistant"} => Len(a) = 1
             /\ pc[t] = "done" => Len(a) = IF result[t].success THEN 2 ELSE 1
    /\ Cardinality(RowsOf("assistant")) <= Cardinality(RowsOf("user"))

\* C37 witness: with the store working, one turn failed in its generation and
\* the other was answered: the log is user, user, assistant
C37_Witness ==
  /\ StoreWorks
  /\ pc[1] = "done" /\ Failed(1, "complete") /\ ~ result[1].success
  /\ Completed(2)
  /\ Len(messages) = 3
  /\ AddCalls(1)[1].row = 1
  /\ messages[1].role = "user" /\ messages[2].role = "user"
  /\ messages[3].role = "assistant"

\* C38: in a non-routed chat turn the chat history handed to the chat engine
\* holds only messages of earlier turns: it is the history of the session as
\* it was before the user message of the turn was stored.
C38_HistoryOfEarlierTurnsOnly ==
  \A t \in Turns :
    (/\ kind[t] = "chat"
     /\ Called(t, "get_chat_history") /\ ~ Failed(t, "get_chat_history")
     /\ UserAdd(t).ok) =>
      chat_history[t] =
        _build_chat_history(
          get_chat_history(SubSeq(messages, 1, UserAdd(t).row - 1), sid[t], 0))

\* the messages of a session in the order in which they were stored
LogOf(s) == SelectSeq(messages, LAMBDA r : r.session_id = s)

\* C39: get_chat_history(id, k), k >= 1, on a session with more than k
\* messages returns the k earliest messages of the session, a prefix of its
\* log; the log only grows at its end, so once a session holds at least
\* MAX_CHAT_HISTORY messages the history chat loads is the same first
\* MAX_CHAT_HISTORY messages on every later turn.
C39_HistoryIsEarliestPrefix ==
  /\ [](\A s \in SessionIds, k \in 1 .. (MAX_CHAT_HISTORY + 1) :
          Len(LogOf(s)) > k =>
            LET h == get_chat_history(messages, s, k)
            IN  /\ Len(h) = k
                /\ \A i \in 1 .. k :
                     /\ h[i].role = LogOf(s)[i].role
                     /\ h[i].content = LogOf(s)[i].content
                     /\ h[i].timestamp = LogOf(s)[i].timestamp)
  /\ [][/\ IsPrefix(messages, messages')
        /\ \A t \in Turns :
             (/\ pc[t] = "history" /\ pc'[t] = "retrieve"
              /\ trace'[t][Len(trace'[t])].ok
              /\ Len(LogOf(sid[t])) >= MAX_CHAT_HISTORY) =>
               chat_history'[t] =
                 [i \in 1 .. MAX_CHAT_HISTORY |->
                    [role |-> LogOf(sid[t])[i].role,
                     content |-> LogOf(sid[t])[i].content]]]_vars

\* C39 witness: the second turn of a session has loaded its history: the
\* session holds the two messages of the first turn and the new user message,
\* and the history is the first two, the new message not among them
C39_Witness ==
  \E t \in Turns :
    /\ kind[t] = "chat" /\ pc[t] = "retrieve"
    /\ Len(LogOf(sid[t])) = MAX_CHAT_HISTORY + 1
    /\ LogOf(sid[t])[MAX_CHAT_HISTORY + 1].role = "user"
    /\ Len(chat_history[t]) = MAX_CHAT_HISTORY
    /\ chat_history[t][1].role = "user"
    /\ chat_history[t][MAX_CHAT_HISTORY].role = "assistant"

====
